---- MODULE Spec2Model ----
(***************************************************************************)
(* A model of the Telegram diary bot (src/bot.py): the section parser      *)
(* parse_feedback as an operator over token strings, and the conversation  *)
(* handlers as actions over the per-conversation state, the per-user       *)
(* buffer and the files the bot writes.                                    *)
(*                                                                         *)
(* Strings are sequences of tokens.  A token is either a fragment of a     *)
(* header literal ("GRATITUDE:", "DAY", "SUMMARY", ...), a whitespace      *)
(* character, a digit, or another single character.  Header literals are   *)
(* upper case and the other tokens are not, so a header occurs in the      *)
(* concatenated characters exactly where its token sequence occurs in the  *)
(* token sequence: "RATING:" occurs inside "DAY RATING:" and "DAY SUMMARY" *)
(* is a prefix of "DAY SUMMARY (AS A STORY):", as in the source literals.  *)
(***************************************************************************)
EXTENDS Integers, Sequences, FiniteSets, TLC

\* ------------------------------------------------------------------ bounds
\* Number of segments (a header variant or a piece of content) of a free text.
MaxSegs == 3

\* Number of days the clock can show.
MaxDay == 2

\* Number of updates the bot handles.
MaxMsgs == 3

\* ------------------------------------------------------- string primitives
Whitespace == {" ", "\n"}

Digits == {"0", "1", "2", "3", "4", "5", "6", "7", "8", "9"}

DigitVal(d) ==
    CASE d = "0" -> 0 [] d = "1" -> 1 [] d = "2" -> 2 [] d = "3" -> 3
      [] d = "4" -> 4 [] d = "5" -> 5 [] d = "6" -> 6 [] d = "7" -> 7
      [] d = "8" -> 8 [] d = "9" -> 9

\* s[b:e] with Python's 0-based, end-exclusive indices.
Slice(s, b, e) == SubSeq(s, b + 1, e)

\* True when h occurs in s at 0-based offset i.
OccursAt(h, s, i) ==
    /\ i >= 0
    /\ i + Len(h) <= Len(s)
    /\ \A k \in 1..Len(h) : s[i + k] = h[k]

\* h in s
Contains(h, s) == \E i \in 0..Len(s) : OccursAt(h, s, i)

\* s.find(h): the least offset of h in s, -1 when there is none.
Find(h, s) ==
    IF Contains(h, s)
    THEN CHOOSE i \in 0..Len(s) :
            /\ OccursAt(h, s, i)
            /\ \A j \in 0..(i - 1) : ~OccursAt(h, s, j)
    ELSE -1

\* s.split(h, 1)[1]: what follows the first occurrence of h.
AfterFirst(h, s) == Slice(s, Find(h, s) + Len(h), Len(s))

RECURSIVE LStrip(_)
LStrip(s) ==
    IF s # << >> /\ Head(s) \in Whitespace THEN LStrip(Tail(s)) ELSE s

RECURSIVE RStrip(_)
RStrip(s) ==
    IF s # << >> /\ s[Len(s)] \in Whitespace
    THEN RStrip(SubSeq(s, 1, Len(s) - 1))
    ELSE s

\* s.strip()
Strip(s) == RStrip(LStrip(s))

IsDigits(s) == s # << >> /\ \A k \in 1..Len(s) : s[k] \in Digits

\* int(s) for a string of digits.
RECURSIVE IntOf(_)
IntOf(s) ==
    IF s = << >> THEN 0
    ELSE 10 * IntOf(SubSeq(s, 1, Len(s) - 1)) + DigitVal(s[Len(s)])

\* re.search(r'(\d+)(?:/10)?', s).group(1): the first maximal run of digits,
\* << >> when s has no digit (no match).
FirstDigitGroup(s) ==
    IF \E k \in 1..Len(s) : s[k] \in Digits
    THEN LET b == CHOOSE k \in 1..Len(s) :
                    /\ s[k] \in Digits
                    /\ \A j \in 1..(k - 1) : s[j] \notin Digits
             e == CHOOSE k \in b..Len(s) :
                    /\ \A j \in b..k : s[j] \in Digits
                    /\ (k = Len(s) \/ s[k + 1] \notin Digits)
         IN SubSeq(s, b, e)
    ELSE << >>

\* ------------------------------------------------------------ parse_feedback
TextFields == <<"gratitude", "time_wasted", "good_use", "memorable_moments",
                "suggestions", "habit_patterns", "day_summary">>

FieldOrder == TextFields \o <<"day_rating">>

FieldNames == {FieldOrder[i] : i \in 1..Len(FieldOrder)}

TextFieldNames == {TextFields[i] : i \in 1..Len(TextFields)}

FieldIndex(f) == CHOOSE i \in 1..Len(FieldOrder) : FieldOrder[i] = f

sections_to_find ==
    [gratitude         |-> << <<"GRATITUDE:">>, <<"THINGS TO BE GRATEFUL FOR:">> >>,
     time_wasted       |-> << <<"TIME INEFFICIENCY:">>, <<"TIME WASTED:">> >>,
     good_use          |-> << <<"GOOD USE OF TIME:">>, <<"GOOD USE:">> >>,
     memorable_moments |-> << <<"MEMORABLE MOMENTS:">> >>,
     suggestions       |-> << <<"SUGGESTIONS FOR IMPROVEMENT:">>, <<"SUGGESTIONS:">> >>,
     habit_patterns    |-> << <<"HABIT PATTERN ANALYSIS:">> >>,
     day_summary       |-> << <<"DAY", " ", "SUMMARY">>,
                              <<"DAY", " ", "SUMMARY", " ", "(AS A STORY):">> >>,
     day_rating        |-> << <<"DAY", " ", "RATING:">>, <<"RATING:">> >>]

HeadersOf(f) == {sections_to_find[f][i] : i \in 1..Len(sections_to_find[f])}

AllHeaders == UNION {HeadersOf(f) : f \in FieldNames}

Placeholder == <<"No specific points mentioned.">>

DefaultRating == <<"7">>

\* The initial value of a field in `sections`.
InitialValue(f) == IF f = "day_rating" THEN DefaultRating ELSE << >>

\* Mutant of EndPos: only the first header variant of each field ends a
\* section.
EndPos_FirstVariantsOnly(content) ==
    LET firsts == {sections_to_find[f][1] : f \in FieldNames}
        hits == {Find(h, content) : h \in {g \in firsts : Contains(g, content)}}
    IN IF hits = {} THEN Len(content)
       ELSE CHOOSE p \in hits : \A q \in hits : p <= q

\* end_pos: the least offset in content of any header variant of any field,
\* len(content) when there is none.
EndPos(content) ==
    LET hits == {Find(h, content) : h \in {g \in AllHeaders : Contains(g, content)}}
    IN IF hits = {} THEN Len(content)
       ELSE CHOOSE p \in hits : \A q \in hits : p <= q

\* Mutant of ChosenVariant: the variant whose first occurrence comes first in
\* the text is taken.
ChosenVariant_FirstInText(text, f) ==
    LET hs == sections_to_find[f]
        present == {i \in 1..Len(hs) : Contains(hs[i], text)}
    IN IF present = {} THEN 0
       ELSE CHOOSE i \in present :
                \A j \in present :
                    \/ Find(hs[i], text) < Find(hs[j], text)
                    \/ Find(hs[i], text) = Find(hs[j], text) /\ i <= j

\* The header the loop over possible_headers stops at: the first variant, in
\* list order, that the text contains (0 when it contains none).
ChosenVariant(text, f) ==
    LET hs == sections_to_find[f]
        present == {i \in 1..Len(hs) : Contains(hs[i], text)}
    IN IF present = {} THEN 0
       ELSE CHOOSE i \in present : \A j \in present : i <= j

\* Mutant of ExtractSection: a field without a header takes the whole text.
ExtractSection_WholeText(text, f) ==
    LET i == ChosenVariant(text, f)
    IN IF i = 0 THEN Strip(text)
       ELSE LET section_content == AfterFirst(sections_to_find[f][i], text)
            IN Strip(Slice(section_content, 0, EndPos(section_content)))

\* The first loop of parse_feedback for one field.
ExtractSection(text, f) ==
    LET i == ChosenVariant(text, f)
    IN IF i = 0 THEN InitialValue(f)
       ELSE LET section_content == AfterFirst(sections_to_find[f][i], text)
            IN Strip(Slice(section_content, 0, EndPos(section_content)))

\* Mutant of NormaliseRating: the rating content is kept as it is.
NormaliseRating_Unparsed(r) == r

\* "Special handling for rating": keep the first digit group.
NormaliseRating(r) ==
    IF r # << >>
    THEN IF FirstDigitGroup(r) # << >> THEN FirstDigitGroup(r) ELSE DefaultRating
    ELSE r

\* "Ensure all sections have content".
FillDefault(f, v) ==
    IF v = << >>
    THEN IF f = "day_rating" THEN DefaultRating ELSE Placeholder
    ELSE v

\* Mutant of ValidateRating: the range check is missing.
ValidateRating_NoRange(r) == IF IsDigits(r) THEN r ELSE DefaultRating

\* "Validate day rating is between 1-10".
ValidateRating(r) ==
    IF IsDigits(r)
    THEN IF IntOf(r) < 1 \/ IntOf(r) > 10 THEN DefaultRating ELSE r
    ELSE DefaultRating

parse_feedback(text) ==
    [f \in FieldNames |->
        IF f = "day_rating"
        THEN ValidateRating(FillDefault(f, NormaliseRating(ExtractSection(text, f))))
        ELSE FillDefault(f, ExtractSection(text, f))]

\* ------------------------------------------------------- texts to be parsed
\* The header each field has in the rubric prompt of process_diary_entry.
CanonHeader ==
    [gratitude         |-> <<"GRATITUDE:">>,
     time_wasted       |-> <<"TIME INEFFICIENCY:">>,
     good_use          |-> <<"GOOD USE OF TIME:">>,
     memorable_moments |-> <<"MEMORABLE MOMENTS:">>,
     suggestions       |-> <<"SUGGESTIONS FOR IMPROVEMENT:">>,
     habit_patterns    |-> <<"HABIT PATTERN ANALYSIS:">>,
     day_summary       |-> <<"DAY", " ", "SUMMARY", " ", "(AS A STORY):">>,
     day_rating        |-> <<"DAY", " ", "RATING:">>]

\* Pieces of header-free content.
ContentPieces ==
    { <<"a">>, <<" ">>, <<"a", "b", "c">>, <<"8", "/", "1", "0">>,
      <<"1", "4", "/", "1", "0">>, <<"0">> }

Segments == AllHeaders \cup ContentPieces

RECURSIVE Flatten(_)
Flatten(ss) == IF ss = << >> THEN << >> ELSE Head(ss) \o Flatten(Tail(ss))

\* Every concatenation of at most MaxSegs segments.
FreeTexts == {Flatten(ss) : ss \in UNION {[1..n -> Segments] : n \in 0..MaxSegs}}

SectionBodies == { <<"a">>, <<" ", "a", "b", "c", "\n">> }

RatingBodies ==
    { <<" ", "8", "/", "1", "0">>, <<"1", "4", "/", "1", "0">>,
      <<"a", "b", "c">>, <<" ", "1", "0", "\n">> }

Preambles == { << >>, <<"a", " ">> }

\* A reply in the shape the rubric prompt asks for.
RubricText(pre, body) ==
    pre \o Flatten([i \in 1..Len(FieldOrder) |->
                      CanonHeader[FieldOrder[i]] \o body[FieldOrder[i]]])

RubricTexts ==
    {RubricText(pre, body) :
        pre \in Preambles,
        body \in {b \in [FieldNames -> SectionBodies \cup RatingBodies] :
                    /\ b["day_rating"] \in RatingBodies
                    /\ \A f \in TextFieldNames : b[f] \in SectionBodies}}

\* Texts in which a field's header is repeated or appears in two variants:
\* header, body, header of the same field, body, any header, body.
SameFieldPairs ==
    {hh \in AllHeaders \X AllHeaders :
        \E f \in FieldNames : hh[1] \in HeadersOf(f) /\ hh[2] \in HeadersOf(f)}

VariantTexts ==
    {hh[1] \o b1 \o hh[2] \o b2 \o h3 \o b3 :
        hh \in SameFieldPairs, h3 \in AllHeaders,
        b1 \in {<<"a">>, <<" ">>}, b2 \in {<<"b", " ">>}, b3 \in {<< >>, <<"8">>}}

Texts == FreeTexts \cup RubricTexts \cup VariantTexts

\* Texts made of headers in any order, each followed by a body: the headers
\* of a field with two unrelated variants, and those of the two fields one
\* of whose variants occurs inside the other.
MaxSpanHeaders == 3

SpanHeaders ==
    HeadersOf("gratitude") \cup HeadersOf("day_summary") \cup HeadersOf("day_rating")

SpanBodies == { << >>, <<" ", "a", "\n">> }

SpanParts == {h \o b : h \in SpanHeaders, b \in SpanBodies}

SpanTexts == {Flatten(ss) : ss \in UNION {[1..n -> SpanParts] : n \in 0..MaxSpanHeaders}}

\* ------------------------------------------------ users, chats, the clock
\* config["allowed_user_ids"] and the users that can write to the bot.
allowed_user_ids == {101, 102}

Users == allowed_user_ids \cup {999}

\* A conversation is keyed by (chat, user): a user can talk to the bot in the
\* private chat and in a group chat.
Chats == {"private", "group"}

is_authorized_user(user_id) == user_id \in allowed_user_ids

\* re.sub(r'[^\d]', '', str(user_id)) of a numeric user id.
safe_user_id(user_id) == user_id

END == "END"
WAITING_FOR_DIARY == "WAITING_FOR_DIARY"
WAITING_FOR_AUDIO_CHOICE == "WAITING_FOR_AUDIO_CHOICE"

\* datetime.datetime.now() on the i-th day the model distinguishes:
\* 2024-05-01, 2025-05-01, 2025-05-02, 2026-05-02, ...
Calendar(i) == [y |-> 2024 + (i \div 2), m |-> 5, d |-> 1 + ((i - 1) \div 2)]

\* strftime("%d-%m-%Y")
DateStr(date) == <<date.d, date.m, date.y>>

\* strftime('%Y-%m-%d')
IsoDate(date) == <<date.y, date.m, date.d>>

\* ------------------------------------------------------------------- paths
\* DATA/Diary/<Month>/<dd>_<uid>.txt
EntryPath(date, user_id) ==
    [dir |-> "DATA/Diary", key |-> <<date.m, date.d, safe_user_id(user_id)>>,
     leaf |-> ".txt"]

\* DATA/Diary/<Month>/<dd>_<uid>_analysis.txt
AnalysisPath(date, user_id) ==
    [dir |-> "DATA/Diary", key |-> <<date.m, date.d, safe_user_id(user_id)>>,
     leaf |-> "_analysis.txt"]

\* DATA/DiaryEntries/<YYYY-MM-DD>_diary.txt
DiaryFilePath(iso) ==
    [dir |-> "DATA/DiaryEntries", key |-> iso, leaf |-> "_diary.txt"]

\* DATA/Users/<uid>_bio.txt
UserBioPath(user_id) ==
    [dir |-> "DATA/Users", key |-> <<safe_user_id(user_id)>>, leaf |-> "_bio.txt"]

\* DATA/Bio.txt
DefaultBioPath == [dir |-> "DATA", key |-> << >>, leaf |-> "Bio.txt"]

\* DATA/Audio/<dd-mm-YYYY>/<section>.mp3
AudioFilePath(audio_path, section_name) ==
    [dir |-> "DATA/Audio", key |-> audio_path, leaf |-> section_name]

\* The file system after f.write(content) on path.
WriteFile(fs, path, content) ==
    [q \in DOMAIN fs \cup {path} |-> IF q = path THEN content ELSE fs[q]]

\* ---------------------------------------------------------------- messages
MinEntryLen == 10

MaxEntryLen == 10000

MaxBioLen == 2000

SkipText == "Skip - I'll type it"

Greetings == {"hi", "hello", "hey"}

YesText == "Yes, send audio"

NoText == "No, text only"

\* A text message is a literal followed by `pad` more characters.
LitLen(lit) ==
    CASE lit = "" -> 0
      [] lit = "hi" -> 2
      [] lit = "hello" -> 5
      [] lit = "hey" -> 3
      [] lit = SkipText -> 19
      [] lit = YesText -> 15
      [] lit = NoText -> 13

\* len(update.message.text)
TextLen(m) == LitLen(m.lit) + m.pad

TextMsg(lit, pad) == [kind |-> "text", lit |-> lit, pad |-> pad]

CommandMsg(name, arg) == [kind |-> "command", name |-> name, arg |-> arg]

\* The text messages a user sends: the keyboard texts, the greetings, and
\* free text on both sides of the two length limits.
TextMsgs ==
    {TextMsg(lit, 0) : lit \in Greetings \cup {SkipText, YesText, NoText}}
        \cup {TextMsg("", n) : n \in {MinEntryLen - 1, MinEntryLen,
                                      MaxEntryLen, MaxEntryLen + 1}}

\* The commands a user sends.  "read_date" is /read_YYYYMMDD, "unknown" any
\* command no handler is registered for; the argument of /setbio is the
\* length of the bio text (0: no argument).
CommandMsgs(days) ==
    {CommandMsg(n, << >>) :
        n \in {"diary", "cancel", "start", "help", "mydiary", "unknown"}}
        \cup {CommandMsg("setbio", <<n>>) : n \in {0, MaxBioLen, MaxBioLen + 1}}
        \cup {CommandMsg("read_date", IsoDate(Calendar(i))) : i \in days}

\* filters.Regex(r'^(hi|hello|hey)$')
IsGreeting(m) == m.kind = "text" /\ m.lit \in Greetings /\ m.pad = 0

\* filters.Regex(r'^(Yes|No)')
IsYesNo(m) == m.kind = "text" /\ m.lit \in {YesText, NoText}

\* audio_choice.startswith("Yes")
StartsWithYes(m) == m.lit = YesText

\* ConversationHandler.check_update: the handler of the conversation that
\* takes the update in the given state, "none" when none does.
ConversationHandles(state, m) ==
    CASE state = END ->
            IF m.kind = "command" /\ m.name = "diary" THEN "start_diary"
            ELSE IF IsGreeting(m) THEN "handle_hello"
            ELSE "none"
      [] state = WAITING_FOR_DIARY ->
            IF m.kind = "text" THEN "process_diary_entry"
            ELSE IF m.name = "cancel" THEN "cancel"
            ELSE "none"
      [] state = WAITING_FOR_AUDIO_CHOICE ->
            IF IsYesNo(m) THEN "send_analysis"
            ELSE IF m.kind = "command" /\ m.name = "cancel" THEN "cancel"
            ELSE "none"

\* The handlers registered after the conversation handler, in order.
OtherHandles(m) ==
    IF m.kind = "command"
    THEN CASE m.name = "start" -> "start"
           [] m.name = "help" -> "help_command"
           [] m.name = "setbio" -> "set_bio"
           [] m.name = "mydiary" -> "show_diary"
           [] m.name = "read_date" -> "read_diary"
           [] OTHER -> "handle_unknown_command"
    ELSE "none"

\* The one handler of group 0 that runs for the update.
Handler(state, m) ==
    IF ConversationHandles(state, m) # "none"
    THEN ConversationHandles(state, m)
    ELSE OtherHandles(m)

\* ----------------------------------------------------------------- replies
Reply(t) == [ev |-> "reply", text |-> t]

AccessDeniedText ==
    <<"Access Denied. Your user ID (", "{user.id}",
      ") is not authorized to use this bot.">>

\* The denial of every handler that checks the authorization itself.
AccessDenied(user_id) == [ev |-> "reply", text |-> AccessDeniedText, id |-> user_id]

\* The denial of handle_unauthorized.
AccessDeniedContact(user_id) ==
    [ev |-> "reply",
     text |-> AccessDeniedText
                \o <<"\n\nPlease contact the bot administrator if you believe this is an error.">>,
     id |-> user_id]

\* ------------------------------------------------------ the language model
LlmFailures == {"timeout", "request_error", "malformed", "unexpected"}

\* Two replies that follow the rubric; the day summary of the second holds
\* an underscore, as in a word like time_management.
LlmReplies ==
    [reply_a |->
        RubricText(<< >>,
            [f \in FieldNames |->
                IF f = "day_rating" THEN <<" ", "8", "/", "1", "0">>
                ELSE IF f = "day_summary" THEN <<" ", "a", "b", "c", "\n">>
                ELSE <<"a">>]),
     reply_b |->
        RubricText(<<"a", " ">>,
            [f \in FieldNames |->
                IF f = "day_rating" THEN <<"3">>
                ELSE IF f = "gratitude" THEN <<"b">>
                ELSE IF f = "day_summary" THEN <<"c", "_", "d">>
                ELSE <<" ", "c">>])]

LlmOutcomes == LlmFailures \cup DOMAIN LlmReplies

\* What analyze_day_with_openrouter returns for each outcome of the request.
analyze_day_with_openrouter(outcome) ==
    CASE outcome = "timeout" ->
            <<"I'm sorry, the analysis service took too long to respond. Please try again later.">>
      [] outcome = "request_error" ->
            <<"I'm sorry, I couldn't analyze your diary entry due to a connection issue.">>
      [] outcome = "malformed" ->
            <<"I'm sorry, there was an issue processing the analysis of your diary entry.">>
      [] outcome = "unexpected" ->
            <<"I'm sorry, an unexpected error occurred while analyzing your diary entry.">>
      [] OTHER -> LlmReplies[outcome]

\* ------------------------------------------------------------------- state
VARIABLES
    text,       \* parse_feedback alone: its argument
    sections,   \* parse_feedback alone: the dictionary it builds and returns
    pc,         \* parse_feedback alone: "input", then "parsed"; "bot" in the bot
    conv,       \* ConversationHandler: the state of each (chat, user)
    user_data,  \* context.user_data of each user
    files,      \* the files under DATA: path -> content
    audio_dirs, \* the directories DATA/Audio/<dd-mm-YYYY> that exist
    today,      \* the day datetime.now() returns, an index of Calendar
    trace,      \* the update handled last and what its handler did, in order
    nMsgs,      \* number of updates handled
    completed   \* history: the runs of send_analysis so far, in order

parseVars == <<text, sections, pc>>

botVars == <<conv, user_data, files, audio_dirs, today, trace, nMsgs, completed>>

vars == <<text, sections, pc, conv, user_data, files, audio_dirs, today, trace, nMsgs,
          completed>>

\* `sections` as parse_feedback initialises it.
InitialSections == [f \in FieldNames |-> InitialValue(f)]

\* The bot after start-up: no conversation, no buffered analysis, the default
\* bio file written by the start-up code.
BotInit ==
    /\ conv = [k \in Chats \X Users |-> END]
    /\ user_data = [u \in Users |-> << >>]
    /\ files = WriteFile(<< >>, DefaultBioPath,
                         TextMsg("No personal information available yet.", 0))
    /\ audio_dirs = {}
    /\ today = 1
    /\ trace = << >>
    /\ nMsgs = 0
    /\ completed = << >>

ParseInit ==
    /\ text \in Texts
    /\ sections = InitialSections
    /\ pc = "input"
    /\ BotInit

Parse ==
    /\ pc = "input"
    /\ sections' = parse_feedback(text)
    /\ pc' = "parsed"
    /\ UNCHANGED text
    /\ UNCHANGED botVars

ParseNext == Parse

SpecParse == ParseInit /\ [][ParseNext]_vars

\* parse_feedback on the texts with headers in any order.
SpanInit ==
    /\ text \in SpanTexts
    /\ sections = InitialSections
    /\ pc = "input"
    /\ BotInit

SpecSpans == SpanInit /\ [][ParseNext]_vars

\* ---------------------------------------------------------------- handlers
Update(c, u, m) == [ev |-> "update", chat |-> c, user |-> u, msg |-> m]

\* The messages a user can send on the days the clock has shown so far.
Msgs == TextMsgs \cup CommandMsgs(1..MaxDay)

\* The application takes an update and runs handler h on it.
Takes(c, u, m, h) ==
    /\ pc = "bot"
    /\ Handler(conv[<<c, u>>], m) = h
    /\ nMsgs' = nMsgs + 1
    /\ UNCHANGED parseVars

\* The handler sent these messages and did nothing else.
OnlyReplies(c, u, m, events) ==
    /\ trace' = <<Update(c, u, m)>> \o events
    /\ UNCHANGED <<conv, user_data, files, audio_dirs, today, completed>>

\* start: a denial or a fixed text.
start(c, u, m) ==
    /\ Takes(c, u, m, "start")
    /\ IF ~is_authorized_user(u)
       THEN OnlyReplies(c, u, m, <<AccessDenied(u)>>)
       ELSE OnlyReplies(c, u, m, <<Reply(<<"Welcome to your Daily Reflection Bot.">>)>>)

\* Mutant of help_command: the authorization check is missing.
help_command_unchecked(c, u, m) ==
    /\ Takes(c, u, m, "help_command")
    /\ OnlyReplies(c, u, m, <<Reply(<<"Daily Reflection Bot Commands">>)>>)

\* help_command: a denial or a fixed text.
help_command(c, u, m) ==
    /\ Takes(c, u, m, "help_command")
    /\ IF ~is_authorized_user(u)
       THEN OnlyReplies(c, u, m, <<AccessDenied(u)>>)
       ELSE OnlyReplies(c, u, m, <<Reply(<<"Daily Reflection Bot Commands">>)>>)

\* load_user_bio: the user's bio file, else the default bio file.
load_user_bio(fs, user_id) ==
    IF UserBioPath(user_id) \in DOMAIN fs THEN fs[UserBioPath(user_id)]
    ELSE IF DefaultBioPath \in DOMAIN fs THEN fs[DefaultBioPath]
    ELSE TextMsg("No personal information available yet.", 0)

\* set_bio; the write of the bio file succeeds or raises (ok).
set_bio(c, u, m, ok) ==
    /\ Takes(c, u, m, "set_bio")
    /\ IF ~is_authorized_user(u)
       THEN ok /\ OnlyReplies(c, u, m, <<AccessDenied(u)>>)
       ELSE IF m.arg[1] = 0
       THEN ok /\ OnlyReplies(c, u, m,
                    <<[ev |-> "reply", text |-> <<"Personal Bio Setup">>,
                       bio |-> load_user_bio(files, u)]>>)
       ELSE IF m.arg[1] > MaxBioLen
       THEN ok /\ OnlyReplies(c, u, m, <<Reply(<<"Bio is too long.">>)>>)
       ELSE IF ok
       THEN /\ files' = WriteFile(files, UserBioPath(u), TextMsg("", m.arg[1]))
            /\ trace' = <<Update(c, u, m),
                          [ev |-> "write", path |-> UserBioPath(u)],
                          Reply(<<"Bio updated successfully!">>)>>
            /\ UNCHANGED <<conv, user_data, audio_dirs, today, completed>>
       ELSE OnlyReplies(c, u, m, <<Reply(<<"Sorry, something went wrong. Please try again later.">>)>>)

\* handle_unknown_command, with handle_unauthorized.
handle_unknown_command(c, u, m) ==
    /\ Takes(c, u, m, "handle_unknown_command")
    /\ IF ~is_authorized_user(u)
       THEN OnlyReplies(c, u, m, <<AccessDeniedContact(u)>>)
       ELSE OnlyReplies(c, u, m,
                <<Reply(<<"Sorry, I don't recognize that command. Use /help to see available commands.">>)>>)

\* An update no handler takes: nothing is sent and nothing changes.
no_handler(c, u, m) ==
    /\ Takes(c, u, m, "none")
    /\ OnlyReplies(c, u, m, << >>)

\* Mutant of handle_hello: the authorization check is missing.
handle_hello_unchecked(c, u, m) ==
    /\ Takes(c, u, m, "handle_hello")
    /\ trace' = <<Update(c, u, m), Reply(<<"Hello! How did your day go?">>)>>
    /\ conv' = [conv EXCEPT ![<<c, u>>] = WAITING_FOR_DIARY]
    /\ UNCHANGED <<user_data, files, audio_dirs, today, completed>>

\* handle_hello: the greeting entry point.
handle_hello(c, u, m) ==
    /\ Takes(c, u, m, "handle_hello")
    /\ IF ~is_authorized_user(u)
       THEN OnlyReplies(c, u, m, <<AccessDenied(u)>>)
       ELSE /\ trace' = <<Update(c, u, m), Reply(<<"Hello! How did your day go?">>)>>
            /\ conv' = [conv EXCEPT ![<<c, u>>] = WAITING_FOR_DIARY]
            /\ UNCHANGED <<user_data, files, audio_dirs, today, completed>>

\* start_diary: the /diary entry point.
start_diary(c, u, m) ==
    /\ Takes(c, u, m, "start_diary")
    /\ IF ~is_authorized_user(u)
       THEN OnlyReplies(c, u, m, <<AccessDenied(u)>>)
       ELSE /\ trace' = <<Update(c, u, m), Reply(<<"New Diary Entry">>)>>
            /\ conv' = [conv EXCEPT ![<<c, u>>] = WAITING_FOR_DIARY]
            /\ UNCHANGED <<user_data, files, audio_dirs, today, completed>>

\* Mutant of cancel: the stored analysis is not deleted.
cancel_KeepsAnalysis(c, u, m) ==
    /\ Takes(c, u, m, "cancel")
    /\ trace' = <<Update(c, u, m),
                  Reply(<<"Diary entry cancelled. You can start a new one anytime!">>)>>
    /\ conv' = [conv EXCEPT ![<<c, u>>] = END]
    /\ UNCHANGED <<user_data, files, audio_dirs, today, completed>>

\* cancel: the fallback of both conversation states.
cancel(c, u, m) ==
    /\ Takes(c, u, m, "cancel")
    /\ trace' = <<Update(c, u, m),
                  Reply(<<"Diary entry cancelled. You can start a new one anytime!">>),
                  [ev |-> "clear"]>>
    /\ user_data' = [user_data EXCEPT ![u] = << >>]
    /\ conv' = [conv EXCEPT ![<<c, u>>] = END]
    /\ UNCHANGED <<files, audio_dirs, today, completed>>

\* Mutant of EntryRejection: the lower limit is off by one.
EntryRejection_OffByOne(m) ==
    IF m.lit = SkipText /\ m.pad = 0 THEN "skip"
    ELSE IF TextLen(m) <= MinEntryLen THEN "too_short"
    ELSE IF TextLen(m) > MaxEntryLen THEN "too_long"
    ELSE "none"

\* Mutant of EntryRejection: the upper limit is not checked.
EntryRejection_NoUpperLimit(m) ==
    IF m.lit = SkipText /\ m.pad = 0 THEN "skip"
    ELSE IF TextLen(m) < MinEntryLen THEN "too_short"
    ELSE "none"

\* The three early returns of process_diary_entry.
EntryRejection(m) ==
    IF m.lit = SkipText /\ m.pad = 0 THEN "skip"
    ELSE IF TextLen(m) < MinEntryLen THEN "too_short"
    ELSE IF TextLen(m) > MaxEntryLen THEN "too_long"
    ELSE "none"

RejectionReply(r) ==
    CASE r = "skip" -> Reply(<<"Please type your diary entry for today:">>)
      [] r = "too_short" -> Reply(<<"Your diary entry seems very short.">>)
      [] r = "too_long" -> Reply(<<"Your diary entry is too long.">>)

\* process_diary_entry on a text it does not take as the entry.
RejectEntry(c, u, m) ==
    /\ EntryRejection(m) # "none"
    /\ OnlyReplies(c, u, m, <<RejectionReply(EntryRejection(m))>>)

\* process_diary_entry when save_diary_entry raises: the folders exist, the
\* entry file is not written, the error handler answers, the state stays.
SaveEntryFails(c, u, m) ==
    /\ EntryRejection(m) = "none"
    /\ audio_dirs' = audio_dirs \cup {DateStr(Calendar(today))}
    /\ trace' = <<Update(c, u, m),
                  Reply(<<"Processing your diary entry...">>),
                  [ev |-> "write_failed", path |-> EntryPath(Calendar(today), u)],
                  Reply(<<"Sorry, something went wrong. Please try again later.">>)>>
    /\ UNCHANGED <<conv, user_data, files, today, completed>>

\* parse_feedback(analyze_day_with_openrouter(prompt)) for each outcome.
ParsedFeedback ==
    [outcome \in LlmOutcomes |-> parse_feedback(analyze_day_with_openrouter(outcome))]

\* Mutant of AcceptEntry: a failed request to the language model is not
\* caught, the handler ends in the error handler after the entry was saved.
AcceptEntry_AbortsOnFailure(c, u, m, outcome, analysis_saved) ==
    LET date == Calendar(today)
        date_str == DateStr(date)
        with_entry == WriteFile(files, EntryPath(date, u), m)
        aborts == outcome \in LlmFailures
    IN /\ EntryRejection(m) = "none"
       /\ audio_dirs' = audio_dirs \cup {date_str}
       /\ files' = IF analysis_saved /\ ~aborts
                   THEN WriteFile(with_entry, AnalysisPath(date, u),
                                  analyze_day_with_openrouter(outcome))
                   ELSE with_entry
       /\ trace' = <<Update(c, u, m),
                     Reply(<<"Processing your diary entry...">>),
                     [ev |-> "write", path |-> EntryPath(date, u)],
                     Reply(<<"Analyzing your day...">>),
                     [ev |-> "llm", outcome |-> outcome]>>
                    \o (IF aborts
                        THEN <<Reply(<<"Sorry, something went wrong. Please try again later.">>)>>
                        ELSE <<[ev |-> "parse"],
                               [ev |-> IF analysis_saved THEN "write" ELSE "write_failed",
                                path |-> AnalysisPath(date, u)],
                               Reply(<<"Your diary entry has been analyzed! Would you like to receive the analysis as audio as well?">>),
                               [ev |-> "buffer"]>>)
       /\ user_data' = IF aborts THEN user_data
                       ELSE [user_data EXCEPT ![u] =
                              [analysis |-> [sections |-> ParsedFeedback[outcome],
                                             date_str |-> date_str,
                                             audio_path |-> date_str]]]
       /\ conv' = IF aborts THEN conv
                  ELSE [conv EXCEPT ![<<c, u>>] = WAITING_FOR_AUDIO_CHOICE]
       /\ UNCHANGED <<today, completed>>

\* Mutant of AcceptEntry: a failed request to the language model is sent a
\* second time.
AcceptEntry_Retries(c, u, m, outcome, analysis_saved) ==
    LET date == Calendar(today)
        date_str == DateStr(date)
        with_entry == WriteFile(files, EntryPath(date, u), m)
        calls == IF outcome \in LlmFailures
                 THEN <<[ev |-> "llm", outcome |-> outcome], [ev |-> "llm", outcome |-> outcome]>>
                 ELSE <<[ev |-> "llm", outcome |-> outcome]>>
    IN /\ EntryRejection(m) = "none"
       /\ audio_dirs' = audio_dirs \cup {date_str}
       /\ files' = IF analysis_saved
                   THEN WriteFile(with_entry, AnalysisPath(date, u),
                                  analyze_day_with_openrouter(outcome))
                   ELSE with_entry
       /\ trace' = <<Update(c, u, m),
                     Reply(<<"Processing your diary entry...">>),
                     [ev |-> "write", path |-> EntryPath(date, u)],
                     Reply(<<"Analyzing your day...">>)>>
                    \o calls
                    \o <<[ev |-> "parse"],
                         [ev |-> IF analysis_saved THEN "write" ELSE "write_failed",
                          path |-> AnalysisPath(date, u)],
                         Reply(<<"Your diary entry has been analyzed! Would you like to receive the analysis as audio as well?">>),
                         [ev |-> "buffer"]>>
       /\ user_data' = [user_data EXCEPT ![u] =
                          [analysis |-> [sections |-> ParsedFeedback[outcome],
                                         date_str |-> date_str,
                                         audio_path |-> date_str]]]
       /\ conv' = [conv EXCEPT ![<<c, u>>] = WAITING_FOR_AUDIO_CHOICE]
       /\ UNCHANGED <<today, completed>>

\* process_diary_entry on a valid entry whose raw text was saved: outcome is
\* what the request to the language model ends in, analysis_saved whether the
\* write of the raw analysis succeeds.
AcceptEntry(c, u, m, outcome, analysis_saved) ==
    LET date == Calendar(today)
        date_str == DateStr(date)
        feedback_text == analyze_day_with_openrouter(outcome)
        parsed == ParsedFeedback[outcome]
        with_entry == WriteFile(files, EntryPath(date, u), m)
    IN /\ EntryRejection(m) = "none"
       /\ audio_dirs' = audio_dirs \cup {date_str}
       /\ files' = IF analysis_saved
                   THEN WriteFile(with_entry, AnalysisPath(date, u), feedback_text)
                   ELSE with_entry
       /\ trace' = <<Update(c, u, m),
                     Reply(<<"Processing your diary entry...">>),
                     [ev |-> "write", path |-> EntryPath(date, u)],
                     Reply(<<"Analyzing your day...">>),
                     [ev |-> "llm", outcome |-> outcome],
                     [ev |-> "parse"],
                     [ev |-> IF analysis_saved THEN "write" ELSE "write_failed",
                      path |-> AnalysisPath(date, u)],
                     Reply(<<"Your diary entry has been analyzed! Would you like to receive the analysis as audio as well?">>),
                     [ev |-> "buffer"]>>
       /\ user_data' = [user_data EXCEPT ![u] =
                          [analysis |-> [sections |-> parsed,
                                         date_str |-> date_str,
                                         audio_path |-> date_str]]]
       /\ conv' = [conv EXCEPT ![<<c, u>>] = WAITING_FOR_AUDIO_CHOICE]
       /\ UNCHANGED <<today, completed>>

process_diary_entry(c, u, m) ==
    /\ Takes(c, u, m, "process_diary_entry")
    /\ \/ RejectEntry(c, u, m)
       \/ SaveEntryFails(c, u, m)
       \/ \E outcome \in LlmOutcomes, analysis_saved \in BOOLEAN :
            AcceptEntry(c, u, m, outcome, analysis_saved)

\* ------------------------------------------------------------ send_analysis
section_titles == TextFields

\* Which syntheses succeed when audio is rendered.
SynthOutcomes == {TextFieldNames, TextFieldNames \ {"gratitude"}, {}}

\* How each section message is delivered: with Markdown, as plain text after
\* the Markdown message failed, or not at all.
DeliveryOutcomes ==
    {[k \in TextFieldNames |-> "markdown"],
     [k \in TextFieldNames |-> IF k = "gratitude" THEN "plain" ELSE "markdown"],
     [k \in TextFieldNames |-> IF k = "day_summary" THEN "failed" ELSE "markdown"]}

\* The sections create_audio_files calls gTTS for: all but the rating.
SynthAttempts(secs) == (DOMAIN secs) \ {"day_rating"}

\* Mutant of create_audio_files: the first failure ends the loop (sections
\* are visited in the order of the keys of the dictionary).
create_audio_files_StopsAtFailure(secs, audio_path, synth_ok, dirs) ==
    {k \in SynthAttempts(secs) :
        /\ audio_path \in dirs
        /\ \A j \in SynthAttempts(secs) : FieldIndex(j) <= FieldIndex(k) => j \in synth_ok}

\* create_audio_files: the sections with an audio file.  tts.save writes into
\* audio_path, which has to exist; a failure is caught section by section.
create_audio_files(secs, audio_path, synth_ok, dirs) ==
    {k \in (DOMAIN secs) \ {"day_rating"} : k \in synth_ok /\ audio_path \in dirs}

\* The replace chain of format_section_message (the backquote, its fourth
\* character, is not a token of the model's texts).
EscapeToken(t) ==
    CASE t = "_" -> "\\_" [] t = "*" -> "\\*" [] t = "[" -> "\\[" [] OTHER -> t

format_section_message(title, content, date_str) ==
    [ev |-> "reply", text |-> <<"Daily Analysis for ">>, date_str |-> date_str,
     title |-> title, content |-> [i \in 1..Len(content) |-> EscapeToken(content[i])],
     markdown |-> TRUE]

PlainSectionMessage(title, content, date_str) ==
    [ev |-> "reply", text |-> <<"Daily Analysis for ">>, date_str |-> date_str,
     title |-> title, content |-> content, markdown |-> FALSE]

\* Mutant of SectionEvents: the audio of a section is sent before its text.
SectionEvents_AudioFirst(k, secs, date_str, delivery, want_audio, audio_files) ==
    LET content == IF k \in DOMAIN secs THEN secs[k] ELSE <<"No analysis available.">>
        sent == IF delivery[k] = "failed" THEN << >>
                ELSE <<format_section_message(k, content, date_str)>>
        voice == IF want_audio /\ k \in audio_files
                 THEN <<[ev |-> "voice", section |-> k]>>
                 ELSE << >>
    IN voice \o sent

\* Mutant of SectionEvents: a section that goes out with audio is sent as
\* plain text, without the date line.
SectionEvents_PlainWithAudio(k, secs, date_str, delivery, want_audio, audio_files) ==
    LET content == IF k \in DOMAIN secs THEN secs[k] ELSE <<"No analysis available.">>
        with_voice == want_audio /\ k \in audio_files
        sent == IF delivery[k] = "failed" THEN << >>
                ELSE IF delivery[k] = "plain" \/ with_voice
                THEN <<PlainSectionMessage(k, content, date_str)>>
                ELSE <<format_section_message(k, content, date_str)>>
        voice == IF delivery[k] # "failed" /\ with_voice
                 THEN <<[ev |-> "voice", section |-> k]>>
                 ELSE << >>
    IN sent \o voice

\* The events of one round of the loop over section_titles.
SectionEvents(k, secs, date_str, delivery, want_audio, audio_files) ==
    LET content == IF k \in DOMAIN secs THEN secs[k] ELSE <<"No analysis available.">>
        sent == IF delivery[k] = "markdown"
                THEN <<format_section_message(k, content, date_str)>>
                ELSE IF delivery[k] = "plain"
                THEN <<PlainSectionMessage(k, content, date_str)>>
                ELSE << >>
        voice == IF delivery[k] # "failed" /\ want_audio /\ k \in audio_files
                 THEN <<[ev |-> "voice", section |-> k]>>
                 ELSE << >>
    IN sent \o voice

RECURSIVE SectionLoop(_, _, _, _, _, _)
SectionLoop(keys, secs, date_str, delivery, want_audio, audio_files) ==
    IF keys = << >> THEN << >>
    ELSE SectionEvents(Head(keys), secs, date_str, delivery, want_audio, audio_files)
            \o SectionLoop(Tail(keys), secs, date_str, delivery, want_audio, audio_files)

\* int(sections.get("day_rating", "7")), 7 when out of 1..10 or not a number.
RatingOf(secs) ==
    LET r == IF "day_rating" \in DOMAIN secs THEN secs["day_rating"] ELSE DefaultRating
    IN IF IsDigits(r) /\ IntOf(r) >= 1 /\ IntOf(r) <= 10 THEN IntOf(r) ELSE 7

\* f"{rating}" for a rating in 1..10.
RatingDigits(n) ==
    IF n = 10 THEN <<"1", "0">>
    ELSE <<CHOOSE d \in Digits : DigitVal(d) = n>>

\* Mutant of DiaryContent: the content carries a stamp of the moment of the
\* write.
DiaryContent_Stamped(date, rating, secs) ==
    <<"Diary Entry: ", ToString(date.y), ToString(date.m), ToString(date.d),
      ToString(nMsgs), "\n\n", "Day Rating: ">>
        \o (IF "day_summary" \in DOMAIN secs THEN secs["day_summary"]
            ELSE <<"No day summary available.">>)

\* diary_content
DiaryContent(date, rating, secs) ==
    <<"Diary Entry: ", ToString(date.y), ToString(date.m), ToString(date.d), "\n\n",
      "Day Rating: ">> \o RatingDigits(rating) \o <<"/", "1", "0", "\n\n">>
        \o (IF "day_summary" \in DOMAIN secs THEN secs["day_summary"]
            ELSE <<"No day summary available.">>)
        \o <<"\n\n", "Gratitude:", "\n">>
        \o (IF "gratitude" \in DOMAIN secs THEN secs["gratitude"] ELSE <<"None noted.">>)

\* Mutant of SaveDiaryEvents: a failed write is logged and not reported.
SaveDiaryEvents_Silent(diary_saved, diary_file_path) ==
    IF diary_saved
    THEN <<[ev |-> "write", path |-> diary_file_path],
           Reply(<<"Your digital diary entry has been saved.">>)>>
    ELSE <<[ev |-> "write_failed", path |-> diary_file_path]>>

\* The try block that saves the diary entry, and its except branch.
SaveDiaryEvents(diary_saved, diary_file_path) ==
    IF diary_saved
    THEN <<[ev |-> "write", path |-> diary_file_path],
           Reply(<<"Your digital diary entry has been saved.">>)>>
    ELSE <<[ev |-> "write_failed", path |-> diary_file_path],
           Reply(<<"There was an issue saving your diary entry. Your analysis is still complete though!">>)>>

\* What send_analysis does after it read the buffer, in order: the rendering,
\* the loop over the sections, the rating, the diary artifact, the cleanup and
\* the clearing of the buffer.
AnalysisEvents(want_audio, secs, date_str, audio_path, synth_ok, audio_files, delivery, diary_saved, diary_file_path) ==
    (IF want_audio
     THEN <<[ev |-> "tts", attempted |-> SynthAttempts(secs),
             ok |-> synth_ok, created |-> audio_files]>>
     ELSE << >>)
        \o SectionLoop(section_titles, secs, date_str, delivery, want_audio, audio_files)
        \o <<[ev |-> "reply", text |-> <<"Day Rating: ">>, rating |-> RatingOf(secs)]>>
        \o SaveDiaryEvents(diary_saved, diary_file_path)
        \o (IF want_audio
            THEN <<[ev |-> "cleanup", audio_path |-> audio_path]>>
            ELSE << >>)
        \o <<[ev |-> "clear"]>>

\* send_analysis: synth_ok are the sections whose synthesis succeeds, delivery
\* how each section message fares, diary_saved whether the write of the diary
\* artifact succeeds.  The folder DATA/DiaryEntries can be created (os.makedirs
\* is outside the try block), and the messages with fixed texts are delivered.
\* `completed` gets a record of the run: what it read from the buffer, what
\* it did, and the session state it left.
send_analysis(c, u, m, synth_ok, delivery, diary_saved) ==
    LET want_audio == StartsWithYes(m)
        has == "analysis" \in DOMAIN user_data[u]
        secs == IF has THEN user_data[u].analysis.sections ELSE << >>
        date_str == IF has THEN user_data[u].analysis.date_str
                    ELSE DateStr(Calendar(today))
        audio_path == IF has THEN user_data[u].analysis.audio_path ELSE << >>
        audio_files == IF want_audio
                       THEN create_audio_files(secs, audio_path, synth_ok, audio_dirs)
                       ELSE {}
        rating == RatingOf(secs)
        now == Calendar(today)
        diary_file_path == DiaryFilePath(IsoDate(now))
        events == AnalysisEvents(want_audio, secs, date_str, audio_path, synth_ok,
                                 audio_files, delivery, diary_saved, diary_file_path)
    IN /\ Takes(c, u, m, "send_analysis")
       /\ want_audio \/ synth_ok = {}
       /\ files' = IF diary_saved
                   THEN WriteFile(files, diary_file_path, DiaryContent(now, rating, secs))
                   ELSE files
       /\ audio_dirs' = IF want_audio THEN audio_dirs \ {audio_path} ELSE audio_dirs
       /\ trace' = <<Update(c, u, m)>> \o events
       /\ user_data' = [user_data EXCEPT ![u] = << >>]
       /\ conv' = [conv EXCEPT ![<<c, u>>] = END]
       /\ completed' = Append(completed,
                            [user |-> u, chat |-> c, day |-> today, date_str |-> date_str,
                             buffered |-> has, sections |-> secs,
                             want_audio |-> want_audio, delivery |-> delivery,
                             events |-> events, saved |-> diary_saved,
                             path |-> diary_file_path,
                             content |-> DiaryContent(now, rating, secs),
                             state_after |-> conv'[<<c, u>>],
                             buffer_after |-> user_data'[u]])
       /\ UNCHANGED today

\* ----------------------------------------------------- show_diary, read_diary
ListLimit == 10

\* Tuples of numbers in dictionary order, as the ISO date strings compare.
RECURSIVE TupleLess(_, _)
TupleLess(a, b) ==
    IF a = << >> THEN b # << >>
    ELSE IF b = << >> THEN FALSE
    ELSE IF Head(a) # Head(b) THEN Head(a) < Head(b)
    ELSE TupleLess(Tail(a), Tail(b))

\* Mutant of SortedDescending: the sort is ascending.
RECURSIVE SortedDescending_Ascending(_)
SortedDescending_Ascending(S) ==
    IF S = {} THEN << >>
    ELSE LET low == CHOOSE x \in S : \A y \in S : y = x \/ TupleLess(x, y)
         IN <<low>> \o SortedDescending_Ascending(S \ {low})

\* entries.sort(reverse=True)
RECURSIVE SortedDescending(_)
SortedDescending(S) ==
    IF S = {} THEN << >>
    ELSE LET top == CHOOSE x \in S : \A y \in S : y = x \/ TupleLess(y, x)
         IN <<top>> \o SortedDescending(S \ {top})

\* re.search(r'Day Rating: (\d+)/10', content): the digits, "?" without match.
RatingInFile(content) ==
    LET hits == {i \in 1..Len(content) :
                    /\ content[i] = "Day Rating: "
                    /\ LET g == FirstDigitGroup(SubSeq(content, i + 1, Len(content)))
                       IN /\ g # << >>
                          /\ OccursAt(g \o <<"/", "1", "0">>, content, i)}
    IN IF hits = {} THEN <<"?">>
       ELSE LET i == CHOOSE j \in hits : \A k \in hits : j <= k
            IN FirstDigitGroup(SubSeq(content, i + 1, Len(content)))

\* The dates of the files <date>_diary.txt in DATA/DiaryEntries.
DiaryDates(fs) == {p.key : p \in {q \in DOMAIN fs : q.dir = "DATA/DiaryEntries"}}

\* The list show_diary sends: date and rating, newest first, at most ten.
DiaryListing(fs) ==
    LET sorted == SortedDescending(DiaryDates(fs))
        shown == SubSeq(sorted, 1, IF Len(sorted) < ListLimit THEN Len(sorted) ELSE ListLimit)
    IN [i \in 1..Len(shown) |->
            [date |-> shown[i], rating |-> RatingInFile(fs[DiaryFilePath(shown[i])])]]

show_diary(c, u, m) ==
    /\ Takes(c, u, m, "show_diary")
    /\ IF ~is_authorized_user(u)
       THEN OnlyReplies(c, u, m, <<AccessDenied(u)>>)
       ELSE IF DiaryDates(files) = {}
       THEN OnlyReplies(c, u, m,
                <<Reply(<<"You don't have any diary entries yet. Start by creating your first entry!">>)>>)
       ELSE OnlyReplies(c, u, m,
                <<[ev |-> "reply", text |-> <<"Your Recent Diary Entries:">>,
                   entries |-> DiaryListing(files)]>>)

\* Whether Telegram accepts the text with parse_mode="Markdown": an emphasis
\* marker that is never closed is rejected ("can't parse entities") and
\* reply_text raises.
MarkdownParses(content) ==
    \A t \in {"_", "*"} :
        Cardinality({i \in 1..Len(content) : content[i] = t}) % 2 = 0

\* read_diary: the content is sent unescaped with parse_mode="Markdown"; when
\* that raises, the except branch answers.
read_diary(c, u, m) ==
    /\ Takes(c, u, m, "read_diary")
    /\ IF ~is_authorized_user(u)
       THEN OnlyReplies(c, u, m, <<AccessDenied(u)>>)
       ELSE IF DiaryFilePath(m.arg) \notin DOMAIN files
       THEN OnlyReplies(c, u, m,
                <<[ev |-> "reply", text |-> <<"No diary entry found for ">>, date |-> m.arg]>>)
       ELSE IF MarkdownParses(files[DiaryFilePath(m.arg)])
       THEN OnlyReplies(c, u, m,
                <<[ev |-> "reply", text |-> <<"Diary Entry: ">>, date |-> m.arg,
                   content |-> files[DiaryFilePath(m.arg)]]>>)
       ELSE OnlyReplies(c, u, m,
                <<[ev |-> "reply", text |-> <<"Error reading diary entry for ">>,
                   date |-> m.arg]>>)

\* ------------------------------------------------------------ the whole bot
\* Midnight passes.
Tick ==
    /\ pc = "bot"
    /\ today < MaxDay
    /\ today' = today + 1
    /\ UNCHANGED <<conv, user_data, files, audio_dirs, trace, nMsgs, completed>>
    /\ UNCHANGED parseVars

Init ==
    /\ text = << >>
    /\ sections = InitialSections
    /\ pc = "bot"
    /\ BotInit

\* The users and the chat that send updates: an authorized user and one
\* who is not on the allow-list, each in the private chat.
Senders == {101, 999}

SenderChats == {"private"}

\* The bound on the number of updates.
Within == nMsgs < MaxMsgs

Next ==
    \/ Tick
    \/ \E c \in SenderChats, u \in Senders, m \in Msgs :
        \/ Within /\ start(c, u, m)
        \/ Within /\ help_command(c, u, m)
        \/ Within /\ \E ok \in BOOLEAN : set_bio(c, u, m, ok)
        \/ Within /\ handle_unknown_command(c, u, m)
        \/ Within /\ no_handler(c, u, m)
        \/ Within /\ handle_hello(c, u, m)
        \/ Within /\ start_diary(c, u, m)
        \/ Within /\ process_diary_entry(c, u, m)
        \/ Within /\ \E synth_ok \in SynthOutcomes, delivery \in DeliveryOutcomes,
                        diary_saved \in BOOLEAN :
                          send_analysis(c, u, m, synth_ok, delivery, diary_saved)
        \/ Within /\ cancel(c, u, m)
        \/ Within /\ show_diary(c, u, m)
        \/ Within /\ read_diary(c, u, m)

Spec == Init /\ [][Next]_vars

\* ------------------------------------------------------- repeated sessions
\* The bot with an environment in which the requests to the language model
\* and the writes of the raw files succeed, and with the updates of whole
\* sessions only: the greeting, an entry, the answer without audio, and the
\* two commands that list and read the diary.
MaxSessionMsgs == 7

SessionMsgs ==
    {TextMsg("hi", 0), TextMsg("", MinEntryLen), TextMsg(NoText, 0),
     CommandMsg("mydiary", << >>)}
        \cup {CommandMsg("read_date", IsoDate(Calendar(i))) : i \in 1..MaxDay}

AllDelivered == [k \in TextFieldNames |-> "markdown"]

WithinSessions == nMsgs < MaxSessionMsgs

\* User 101 sends the updates, in the private chat.
SessionsNext ==
    \/ Tick
    \/ \E m \in SessionMsgs :
        \/ WithinSessions /\ handle_hello("private", 101, m)
        \/ WithinSessions /\ Takes("private", 101, m, "process_diary_entry")
                          /\ RejectEntry("private", 101, m)
        \/ WithinSessions /\ Takes("private", 101, m, "process_diary_entry")
                          /\ \E outcome \in DOMAIN LlmReplies :
                                AcceptEntry("private", 101, m, outcome, TRUE)
        \/ WithinSessions /\ \E diary_saved \in BOOLEAN :
                                send_analysis("private", 101, m, {}, AllDelivered, diary_saved)
        \/ WithinSessions /\ no_handler("private", 101, m)
        \/ WithinSessions /\ show_diary("private", 101, m)
        \/ WithinSessions /\ read_diary("private", 101, m)

SpecSessions == Init /\ [][SessionsNext]_vars

\* ------------------------------------------------- sessions of two users
\* The same environment with two users on the allow-list, each in the
\* private chat, who send the updates of a session in any interleaving.
MaxPairMsgs == 6

PairUsers == {101, 102}

PairMsgs == {TextMsg("hi", 0), TextMsg("", MinEntryLen), TextMsg(NoText, 0)}

WithinPair == nMsgs < MaxPairMsgs

PairNext ==
    \/ Tick
    \/ \E u \in PairUsers, m \in PairMsgs :
        \/ WithinPair /\ handle_hello("private", u, m)
        \/ WithinPair /\ Takes("private", u, m, "process_diary_entry")
                      /\ RejectEntry("private", u, m)
        \/ WithinPair /\ Takes("private", u, m, "process_diary_entry")
                      /\ \E outcome \in DOMAIN LlmReplies :
                            AcceptEntry("private", u, m, outcome, TRUE)
        \/ WithinPair /\ send_analysis("private", u, m, {}, AllDelivered, TRUE)
        \/ WithinPair /\ no_handler("private", u, m)

SpecPair == Init /\ [][PairNext]_vars

\* --------------------------------------- two users who write and then read
\* Two users on the allow-list run sessions without audio in their private
\* chats, each message sent where a handler of the conversation takes it,
\* and ask for the diary entry of a date.
MaxSharedMsgs == 7

SharedMsgs ==
    {TextMsg("hi", 0), TextMsg("", MinEntryLen), TextMsg(NoText, 0)}
        \cup {CommandMsg("read_date", IsoDate(Calendar(i))) : i \in 1..MaxDay}

WithinShared == nMsgs < MaxSharedMsgs

SharedNext ==
    \/ Tick
    \/ \E u \in PairUsers, m \in SharedMsgs :
        \/ WithinShared /\ handle_hello("private", u, m)
        \/ WithinShared /\ Takes("private", u, m, "process_diary_entry")
                        /\ \E outcome \in DOMAIN LlmReplies :
                              AcceptEntry("private", u, m, outcome, TRUE)
        \/ WithinShared /\ send_analysis("private", u, m, {}, AllDelivered, TRUE)
        \/ WithinShared /\ read_diary("private", u, m)

SpecShared == Init /\ [][SharedNext]_vars

\* ------------------------------------------------ one user in two chats
\* User 101 talks to the bot in the private chat and in a group chat the bot
\* is a member of; the conversation handler keeps one conversation for each
\* (chat, user), context.user_data is one dictionary for the user.
MaxChatMsgs == 6

ChatMsgs ==
    {TextMsg("hi", 0), TextMsg("", MinEntryLen), TextMsg(YesText, 0), TextMsg(NoText, 0),
     CommandMsg("cancel", << >>)}

WithinChats == nMsgs < MaxChatMsgs

ChatsNext ==
    \/ Tick
    \/ \E c \in Chats, m \in ChatMsgs :
        \/ WithinChats /\ handle_hello(c, 101, m)
        \/ WithinChats /\ Takes(c, 101, m, "process_diary_entry")
                       /\ \E outcome \in DOMAIN LlmReplies :
                             AcceptEntry(c, 101, m, outcome, TRUE)
        \/ WithinChats /\ \E synth_ok \in {{}, TextFieldNames} :
                             send_analysis(c, 101, m, synth_ok, AllDelivered, TRUE)
        \/ WithinChats /\ cancel(c, 101, m)

SpecChats == Init /\ [][ChatsNext]_vars

\* ------------------------------------------- two users who ask for audio
\* Two users on the allow-list run sessions in their private chats, each
\* message sent where a handler of the conversation takes it, and both answer
\* the audio prompt with yes.
MaxRenderMsgs == 6

RenderMsgs == {TextMsg("hi", 0), TextMsg("", MinEntryLen), TextMsg(YesText, 0)}

WithinRender == nMsgs < MaxRenderMsgs

RenderNext ==
    \/ Tick
    \/ \E u \in PairUsers, m \in RenderMsgs :
        \/ WithinRender /\ handle_hello("private", u, m)
        \/ WithinRender /\ Takes("private", u, m, "process_diary_entry")
                        /\ AcceptEntry("private", u, m, "reply_a", TRUE)
        \/ WithinRender /\ \E synth_ok \in SynthOutcomes :
                              send_analysis("private", u, m, synth_ok, AllDelivered, TRUE)

SpecRender == Init /\ [][RenderNext]_vars

\* ------------------------------------------------------- a filled diary
\* The bot after user 101 completed one session without audio on each day of
\* a set of days, then asked for the list of the diary or for one entry.
MaxListDays == 11

MaxListMsgs == 1

RECURSIVE Ascending(_)
Ascending(D) ==
    IF D = {} THEN << >>
    ELSE LET d == CHOOSE x \in D : \A y \in D : x <= y
         IN <<d>> \o Ascending(D \ {d})

\* What the run of send_analysis that ended the session of day d recorded.
PastRun(d) ==
    LET secs == ParsedFeedback["reply_a"]
        date_str == DateStr(Calendar(d))
        path == DiaryFilePath(IsoDate(Calendar(d)))
    IN [user |-> 101, chat |-> "private", day |-> d, date_str |-> date_str,
        buffered |-> TRUE, sections |-> secs,
        want_audio |-> FALSE, delivery |-> AllDelivered,
        events |-> AnalysisEvents(FALSE, secs, date_str, date_str, {}, {},
                                  AllDelivered, TRUE, path),
        saved |-> TRUE, path |-> path,
        content |-> DiaryContent(Calendar(d), RatingOf(secs), secs),
        state_after |-> END, buffer_after |-> << >>]

\* The files after the sessions of these days, in order: raw entry, raw
\* analysis and diary artifact of each.
RECURSIVE FilesAfter(_, _)
FilesAfter(fs, days) ==
    IF days = << >> THEN fs
    ELSE LET d == Head(days)
             with_entry == WriteFile(fs, EntryPath(Calendar(d), 101),
                                     TextMsg("", MinEntryLen))
             with_analysis == WriteFile(with_entry, AnalysisPath(Calendar(d), 101),
                                        analyze_day_with_openrouter("reply_a"))
         IN FilesAfter(WriteFile(with_analysis, PastRun(d).path, PastRun(d).content),
                       Tail(days))

\* The sets of days with a session: few days, or all days but few.
SessionDays ==
    {D \in SUBSET (1..MaxListDays) :
        Cardinality(D) <= 2 \/ Cardinality(D) >= MaxListDays - 1}

ListingInit ==
    \E D \in SessionDays :
        /\ text = << >>
        /\ sections = InitialSections
        /\ pc = "bot"
        /\ conv = [k \in Chats \X Users |-> END]
        /\ user_data = [u \in Users |-> << >>]
        /\ files = FilesAfter(WriteFile(<< >>, DefaultBioPath,
                                        TextMsg("No personal information available yet.", 0)),
                              Ascending(D))
        /\ audio_dirs = {DateStr(Calendar(d)) : d \in D}
        /\ today = IF D = {} THEN 1 ELSE CHOOSE d \in D : \A e \in D : e <= d
        /\ trace = << >>
        /\ nMsgs = 3 * Cardinality(D)
        /\ completed = [i \in 1..Cardinality(D) |-> PastRun(Ascending(D)[i])]

WithinListing == nMsgs < 3 * Len(completed) + MaxListMsgs

ListingNext ==
    \/ WithinListing /\ show_diary("private", 101, CommandMsg("mydiary", << >>))
    \/ \E d \in 1..MaxListDays :
          WithinListing
            /\ read_diary("private", 101, CommandMsg("read_date", IsoDate(Calendar(d))))

SpecListing == ListingInit /\ [][ListingNext]_vars

\* ------------------------------------------------------ rendering the audio
\* The bot when user 101 has sent an entry on some day and is asked for the
\* audio choice; the user answers yes, and the synthesis fails for any set of
\* sections.
\* The answer of the user, one of the text messages users send.
AudioAnswer == TextMsg(YesText, 0)

AudioInit ==
    \E d \in 1..MaxDay, outcome \in LlmOutcomes :
        /\ AudioAnswer \in TextMsgs
        /\ text = << >>
        /\ sections = InitialSections
        /\ pc = "bot"
        /\ conv = [k \in Chats \X Users |->
                      IF k = <<"private", 101>> THEN WAITING_FOR_AUDIO_CHOICE ELSE END]
        /\ user_data = [u \in Users |->
                          IF u = 101
                          THEN [analysis |-> [sections |-> ParsedFeedback[outcome],
                                              date_str |-> DateStr(Calendar(d)),
                                              audio_path |-> DateStr(Calendar(d))]]
                          ELSE << >>]
        /\ files = WriteFile(
                     WriteFile(
                       WriteFile(<< >>, DefaultBioPath,
                                 TextMsg("No personal information available yet.", 0)),
                       EntryPath(Calendar(d), 101), TextMsg("", MinEntryLen)),
                     AnalysisPath(Calendar(d), 101), analyze_day_with_openrouter(outcome))
        /\ audio_dirs = {DateStr(Calendar(d))}
        /\ today = d
        /\ trace = << >>
        /\ nMsgs = 2
        /\ completed = << >>

AudioNext ==
    \E synth_ok \in SUBSET TextFieldNames, diary_saved \in BOOLEAN :
        send_analysis("private", 101, AudioAnswer, synth_ok, AllDelivered, diary_saved)

SpecAudio == AudioInit /\ [][AudioNext]_vars

\* ----------------------------------------------------- the audio choice
\* User 101 runs sessions in the private chat, sending each message where a
\* handler of the conversation takes it, and answers the audio prompt with
\* yes or with no; the request to the language model succeeds or times
\* out, and the syntheses, the section messages and the write of the diary
\* artifact fare in every way the bot distinguishes.
MaxChoiceMsgs == 6

ChoiceMsgs ==
    {TextMsg("hi", 0), TextMsg("", MinEntryLen), TextMsg(YesText, 0), TextMsg(NoText, 0)}

ChoiceOutcomes == {"reply_b", "timeout"}

WithinChoice == nMsgs < MaxChoiceMsgs

ChoiceNext ==
    \/ Tick
    \/ \E m \in ChoiceMsgs :
        \/ WithinChoice /\ handle_hello("private", 101, m)
        \/ WithinChoice /\ Takes("private", 101, m, "process_diary_entry")
                        /\ \E outcome \in ChoiceOutcomes :
                              AcceptEntry("private", 101, m, outcome, TRUE)
        \/ WithinChoice /\ \E synth_ok \in SynthOutcomes, delivery \in DeliveryOutcomes,
                              diary_saved \in BOOLEAN :
                                send_analysis("private", 101, m, synth_ok, delivery, diary_saved)

SpecChoice == Init /\ [][ChoiceNext]_vars

\* ------------------------------------------------- properties of the parser
Parsed == pc = "parsed"

RatingValue(r) == IF IsDigits(r) THEN IntOf(r) ELSE -1

\* C1: parse_feedback returns, for every text, a record with all eight
\* fields, each of the seven text fields non-empty and day_rating a string of
\* digits whose value is in 1..10.
C1_AlwaysFullyValid ==
    Parsed =>
        /\ DOMAIN sections = FieldNames
        /\ \A f \in TextFieldNames : sections[f] # << >>
        /\ IsDigits(sections["day_rating"])
        /\ RatingValue(sections["day_rating"]) \in 1..10

\* C1 witness: a parsed text with neither structure nor a usable rating: a
\* rating header followed by an out-of-range number, and a text field whose
\* header is followed by nothing.
C1_Witness ==
    /\ Parsed
    /\ text = <<"GRATITUDE:", "RATING:", "1", "4", "/", "1", "0">>
    /\ sections["gratitude"] = Placeholder
    /\ sections["day_rating"] = DefaultRating

\* The 0-based offsets at which header h occurs in s.
Offsets(h, s) == {i \in 0..Len(s) : OccursAt(h, s, i)}

\* What follows the rubric header of field f, up to the rubric header of the
\* next field in declared order (the end of the text for the last field).
RubricBody(s, f) ==
    LET i == FieldIndex(f)
        b == Find(CanonHeader[f], s) + Len(CanonHeader[f])
        e == IF i = Len(FieldOrder) THEN Len(s)
             ELSE Find(CanonHeader[FieldOrder[i + 1]], s)
    IN Slice(s, b, e)

\* s has the eight rubric headers once each, in declared order, each followed
\* by content that is not blank and contains no header variant.
IsRubric(s) ==
    /\ \A f \in FieldNames : Cardinality(Offsets(CanonHeader[f], s)) = 1
    /\ \A i \in 1..(Len(FieldOrder) - 1) :
            Find(CanonHeader[FieldOrder[i]], s) + Len(CanonHeader[FieldOrder[i]])
                <= Find(CanonHeader[FieldOrder[i + 1]], s)
    /\ \A f \in FieldNames :
            /\ Strip(RubricBody(s, f)) # << >>
            /\ \A h \in AllHeaders : ~Contains(h, RubricBody(s, f))

\* C2: for a text with the eight rubric headers once each in declared order
\* and non-blank header-free content between them, every text field is the
\* trimmed content that follows its header up to the next header.  (The
\* rating field is left to C5, which says how its content is normalised.)
C2_RubricRecovered ==
    (Parsed /\ IsRubric(text)) =>
        \A f \in TextFieldNames : sections[f] = Strip(RubricBody(text, f))

\* Every occurrence <<header, offset>> of a header variant in s.
Occurrences(s) == {<<h, p>> \in AllHeaders \X (0..Len(s)) : OccursAt(h, s, p)}

\* C3: for a header variant H1 of field F1 at p1 and a variant H2 of a
\* later-declared field at p2 > p1 with no header occurrence between them,
\* F1's content is the trimmed text from p1 + len(H1) up to p2.  Stated for
\* the texts in which F1's header occurs at one place only and the text
\* between the two headers is not blank.
C3_HeaderBoundary ==
    Parsed =>
        \A f1 \in TextFieldNames :
            \A o1 \in {o \in Occurrences(text) : o[1] \in HeadersOf(f1)} :
                \A o2 \in Occurrences(text) :
                    LET H1 == o1[1]
                        p1 == o1[2]
                        H2 == o2[1]
                        p2 == o2[2]
                        between == Slice(text, p1 + Len(H1), p2)
                    IN ( /\ \E f2 \in FieldNames :
                                FieldIndex(f2) > FieldIndex(f1) /\ H2 \in HeadersOf(f2)
                         /\ p2 >= p1 + Len(H1)
                         /\ \A o \in Occurrences(text) : ~(p1 < o[2] /\ o[2] < p2)
                         /\ \A o \in Occurrences(text) :
                                o[1] \in HeadersOf(f1) => o[2] = p1
                         /\ Strip(between) # << >> )
                       => sections[f1] = Strip(between)

\* C4: a field none of whose header variants occurs in the text gets the
\* fixed placeholder (rating 7 for day_rating), whatever else the text holds.
C4_AbsentHeaderPlaceholder ==
    Parsed =>
        \A f \in FieldNames :
            (\A h \in HeadersOf(f) : ~Contains(h, text)) =>
                sections[f] = IF f = "day_rating" THEN DefaultRating ELSE Placeholder

\* C4 witness: a parsed text with content and a number but no rating header
\* and no header of another field, next to a field that was recovered.
C4_Witness ==
    /\ Parsed
    /\ text = <<"GRATITUDE:", "a", "8", "/", "1", "0">>
    /\ sections["gratitude"] = <<"a", "8", "/", "1", "0">>
    /\ sections["day_summary"] = Placeholder
    /\ sections["day_rating"] = DefaultRating

\* g is the first digit group of s: s = pre \o g \o post with no digit in
\* pre, only digits in g, and post empty or starting with a non-digit.
IsFirstDigitGroup(g, s) ==
    /\ IsDigits(g)
    /\ \E b \in 0..Len(s) :
            /\ OccursAt(g, s, b)
            /\ \A k \in 1..b : s[k] \notin Digits
            /\ (b + Len(g) = Len(s) \/ s[b + Len(g) + 1] \notin Digits)

HasDigit(s) == \E k \in 1..Len(s) : s[k] \in Digits

\* The content the first loop extracts for the rating: what follows the
\* chosen rating header, << >> when there is no rating header.
RatingContent(s) ==
    IF ChosenVariant(s, "day_rating") = 0 THEN << >>
    ELSE ExtractSection(s, "day_rating")

\* C5: the rating is the first digit group of the extracted rating content
\* when its value is in 1..10, and 7 when the content has no digit group, is
\* empty, or its first digit group is outside 1..10.
C5_RatingNormalised ==
    Parsed =>
        LET c == RatingContent(text)
            r == sections["day_rating"]
        IN /\ (HasDigit(c) /\ RatingValue(FirstDigitGroup(c)) \in 1..10)
                => (IsFirstDigitGroup(r, c) /\ RatingValue(r) \in 1..10)
           /\ ~(HasDigit(c) /\ RatingValue(FirstDigitGroup(c)) \in 1..10)
                => r = DefaultRating
           /\ c = <<"8", "/", "1", "0">> => r = <<"8">>
           /\ c = <<"1", "4", "/", "1", "0">> => r = DefaultRating
           /\ c = <<"0">> => r = DefaultRating
           /\ c = <<"a", "b", "c">> => r = DefaultRating
           /\ c = << >> => r = DefaultRating

\* C5 witness: "8/10" after the rating header was parsed to 8.
C5_Witness ==
    /\ Parsed
    /\ RatingContent(text) = <<"8", "/", "1", "0">>
    /\ sections["day_rating"] = <<"8">>

\* ---------------------------------------------------- properties of the bot
\* The step in which the application handled update m of user u in chat c.
Handled(c, u, m) ==
    /\ nMsgs' = nMsgs + 1
    /\ trace'[1].chat = c
    /\ trace'[1].user = u
    /\ trace'[1].msg.kind = m.kind
    /\ trace'[1].msg = m

\* The events of one kind among what a handler did.
EventsOf(tr, kind) == {tr[i] : i \in {j \in 1..Len(tr) : tr[j].ev = kind}}

InRange(m) == MinEntryLen <= TextLen(m) /\ TextLen(m) <= MaxEntryLen

IsSkip(m) == m.lit = SkipText /\ m.pad = 0

\* The step took m as the entry: the raw entry is persisted and the session
\* waits for the audio preference.
EntryAccepted(c, u, m) ==
    LET path == EntryPath(Calendar(today), u)
    IN /\ path \in DOMAIN files'
       /\ files'[path] = m
       /\ [ev |-> "write", path |-> path] \in EventsOf(trace', "write")
       /\ conv'[<<c, u>>] = WAITING_FOR_AUDIO_CHOICE

\* The step did not take m as the entry and persisted nothing.
EntryRejected(c, u, m) ==
    /\ conv'[<<c, u>>] = WAITING_FOR_DIARY
    /\ files' = files
    /\ user_data' = user_data
    /\ EventsOf(trace', "llm") = {}

\* The write of the raw entry raised: nothing is persisted, the session stays,
\* the error handler answers.
EntrySaveFailed(c, u, m) ==
    /\ EventsOf(trace', "write_failed")
            = {[ev |-> "write_failed", path |-> EntryPath(Calendar(today), u)]}
    /\ EntryRejected(c, u, m)
    /\ trace'[Len(trace')] = Reply(<<"Sorry, something went wrong. Please try again later.">>)

\* C6 as stated: in WAITING_FOR_DIARY every text message is accepted (raw
\* entry persisted, session moved to WAITING_FOR_AUDIO_CHOICE) exactly when
\* its length L satisfies 10 <= L <= 10000.
C6_AcceptedIffInRange ==
    [][\A c \in Chats, u \in Users, m \in TextMsgs :
          Handled(c, u, m) /\ conv[<<c, u>>] = WAITING_FOR_DIARY
              => (EntryAccepted(c, u, m) <=> InRange(m))]_vars

\* C6, amended: in WAITING_FOR_DIARY a text is accepted only if it is not the
\* keyboard text "Skip - I'll type it" and 10 <= L <= 10000; a text of length
\* below 10 or above 10000 and the keyboard text are rejected with nothing
\* persisted; every other text of length 10..10000 (10 and 10000 included)
\* is accepted, unless the write of the raw entry raises, and then nothing is
\* persisted and the session stays in WAITING_FOR_DIARY.
C6_LengthBoundary ==
    [][\A c \in Chats, u \in Users, m \in TextMsgs :
          Handled(c, u, m) /\ conv[<<c, u>>] = WAITING_FOR_DIARY
              => /\ EntryAccepted(c, u, m) => InRange(m) /\ ~IsSkip(m)
                 /\ ~InRange(m) \/ IsSkip(m) => EntryRejected(c, u, m)
                 /\ InRange(m) /\ ~IsSkip(m)
                        => EntryAccepted(c, u, m) \/ EntrySaveFailed(c, u, m)]_vars

\* An entry of exactly 10 characters was accepted.
C6_Witness ==
    /\ Len(trace) >= 3
    /\ trace[1].msg = TextMsg("", MinEntryLen)
    /\ trace[3] = [ev |-> "write", path |-> EntryPath(Calendar(today), trace[1].user)]
    /\ files[trace[3].path] = trace[1].msg
    /\ conv[<<trace[1].chat, trace[1].user>>] = WAITING_FOR_AUDIO_CHOICE

\* C7: an entry of length below 10 or above 10000 sent in WAITING_FOR_DIARY
\* changes nothing except sending one re-prompt: the session stays in
\* WAITING_FOR_DIARY, no file or folder is created or modified, the language
\* model is not called, and no analysis is buffered.
C7_RejectedEntryChangesNothing ==
    [][\A c \in Chats, u \in Users, m \in TextMsgs :
          Handled(c, u, m) /\ conv[<<c, u>>] = WAITING_FOR_DIARY /\ ~InRange(m)
              => /\ conv' = conv
                 /\ files' = files
                 /\ audio_dirs' = audio_dirs
                 /\ user_data' = user_data
                 /\ Len(trace') = 2
                 /\ trace'[2].ev = "reply"
                 /\ trace'[2] \in {RejectionReply("too_short"), RejectionReply("too_long")}]_vars

\* An entry of 10001 characters was answered with the re-prompt.
C7_Witness ==
    /\ Len(trace) = 2
    /\ trace[1].msg = TextMsg("", MaxEntryLen + 1)
    /\ trace[2] = RejectionReply("too_long")
    /\ conv[<<trace[1].chat, trace[1].user>>] = WAITING_FOR_DIARY

\* The record parse_feedback returns when it finds no header.
PlaceholderRecord ==
    [f \in FieldNames |-> IF f = "day_rating" THEN <<"7">> ELSE <<"No specific points mentioned.">>]

AudioPrompt ==
    Reply(<<"Your diary entry has been analyzed! Would you like to receive the analysis as audio as well?">>)

\* C8: when the request to the language model fails, the handling of the valid
\* entry still completes: the buffered analysis has the placeholder in all
\* seven text fields and rating 7, the user was sent the audio-preference
\* prompt, and the session is in WAITING_FOR_AUDIO_CHOICE.
C8_LlmFailureCompletes ==
    \A e \in EventsOf(trace, "llm") :
        e.outcome \in LlmFailures
            => LET c == trace[1].chat
                   u == trace[1].user
               IN /\ "analysis" \in DOMAIN user_data[u]
                  /\ user_data[u].analysis.sections = PlaceholderRecord
                  /\ AudioPrompt \in EventsOf(trace, "reply")
                  /\ conv[<<c, u>>] = WAITING_FOR_AUDIO_CHOICE

\* The request timed out while a valid entry was handled.
C8_Witness ==
    /\ [ev |-> "llm", outcome |-> "timeout"] \in EventsOf(trace, "llm")
    /\ InRange(trace[1].msg)
    /\ EntryPath(Calendar(today), trace[1].user) \in DOMAIN files

\* The step handled an update of a user who is not on the allow-list.
HandledUnauthorized ==
    /\ nMsgs' = nMsgs + 1
    /\ ~is_authorized_user(trace'[1].user)

\* C9: the session of a user who is not on the allow-list never leaves END
\* (idle), and handling an update of such a user creates or modifies no file,
\* no folder and no buffered analysis.
C9_UnauthorizedStaysIdle ==
    /\ [](\A c \in Chats, u \in Users \ allowed_user_ids : conv[<<c, u>>] = END)
    /\ [][HandledUnauthorized
            => /\ files' = files
               /\ audio_dirs' = audio_dirs
               /\ user_data' = user_data
               /\ conv' = conv]_vars

\* A user who is not on the allow-list sent a greeting after another update.
C9_Witness ==
    /\ nMsgs >= 2
    /\ trace # << >>
    /\ ~is_authorized_user(trace[1].user)
    /\ IsGreeting(trace[1].msg)

\* The update handled last came from a user who is not on the allow-list.
LastUnauthorized == trace # << >> /\ ~is_authorized_user(trace[1].user)

\* C10 as stated: every message of a user who is not on the allow-list is
\* answered, and the answer is the same fixed denial in every case.
C10_SameDenialAlways ==
    LastUnauthorized
        => /\ Len(trace) = 2
           /\ trace[2].text = AccessDeniedText

\* The commands a handler is registered for while the session is idle.
RegisteredCommands == {"diary", "start", "help", "setbio", "mydiary", "read_date"}

\* C10, amended: a user who is not on the allow-list gets exactly one answer
\* to every command and to every greeting: the fixed denial for a registered
\* command and for a greeting, the fixed denial followed by the sentence about
\* the administrator for any other command (/cancel included).  Any other
\* free text gets no answer.
C10_DenialByKind ==
    LastUnauthorized
        => LET m == trace[1].msg
               u == trace[1].user
               answers == SubSeq(trace, 2, Len(trace))
           IN IF m.kind = "command"
              THEN IF m.name \in RegisteredCommands
                   THEN answers = <<AccessDenied(u)>>
                   ELSE answers = <<AccessDeniedContact(u)>>
              ELSE IF m.lit \in Greetings /\ m.pad = 0
                   THEN answers = <<AccessDenied(u)>>
                   ELSE answers = << >>

\* A user who is not on the allow-list sent an unregistered command and got
\* the longer denial.
C10_Witness ==
    /\ LastUnauthorized
    /\ trace[1].msg = CommandMsg("unknown", << >>)
    /\ Len(trace) = 2
    /\ trace[2] = AccessDeniedContact(trace[1].user)

\* ------------------------------------------- properties of repeated sessions
\* The runs of send_analysis that wrote the diary artifact.
SavedRuns == {i \in 1..Len(completed) : completed[i].saved}

\* The last run that wrote the artifact at this path, 0 when there is none.
LastSavedRun(path) ==
    LET runs == {i \in SavedRuns : completed[i].path = path}
    IN IF runs = {} THEN 0 ELSE CHOOSE i \in runs : \A j \in runs : j <= i

ArtifactPaths == {p \in DOMAIN files : p.dir = "DATA/DiaryEntries"}

\* C11: writing the diary artifact is idempotent: when two sessions are
\* completed on the same calendar date with the same analysis record, the
\* second write goes to the same file with the same content, so the file is
\* what it was after the first write; the file always holds what the last
\* write put there.
C11_ArtifactWriteIdempotent ==
    /\ \A i \in SavedRuns, j \in SavedRuns :
          i < j /\ completed[i].day = completed[j].day
                /\ completed[i].sections = completed[j].sections
            => /\ completed[j].path = completed[i].path
               /\ completed[j].content = completed[i].content
    /\ \A p \in ArtifactPaths :
          LastSavedRun(p) # 0 /\ files[p] = completed[LastSavedRun(p)].content

\* Two sessions with the same record were completed on the same date and the
\* artifact is the one of the first.
C11_Witness ==
    \E i \in SavedRuns, j \in SavedRuns :
        /\ i < j
        /\ completed[i].day = completed[j].day
        /\ completed[i].sections = completed[j].sections
        /\ LastSavedRun(completed[i].path) = j
        /\ files[completed[i].path] = completed[i].content

\* ------------------------------------------------- properties of the listing
\* The answer of show_diary to the update handled last is a list.
Listed == Len(trace) = 2 /\ "entries" \in DOMAIN trace[2]

ListedDates == {trace[2].entries[i].date : i \in 1..Len(trace[2].entries)}

StrictlyDescending(entries) ==
    \A i \in 1..Len(entries) - 1 : TupleLess(entries[i + 1].date, entries[i].date)

IsNewest(date, dates) == date \in dates /\ \A d \in dates : d = date \/ TupleLess(d, date)

\* The update handled last is /mydiary.
AskedForList == trace # << >> /\ trace[1].msg = CommandMsg("mydiary", << >>)

\* C12 as stated: the list of show_diary has one item for every stored
\* artifact date, in strictly descending order, the newest date first.
C12_EveryDateListed ==
    AskedForList /\ DiaryDates(files) # {}
        => /\ Listed
           /\ Len(trace[2].entries) = Cardinality(DiaryDates(files))
           /\ ListedDates = DiaryDates(files)
           /\ StrictlyDescending(trace[2].entries)
           /\ IsNewest(trace[2].entries[1].date, DiaryDates(files))

\* C12, amended: the list of show_diary holds the newest stored artifact
\* dates, at most ten of them, in strictly descending order, the newest date
\* first; it has one item for every stored date when at most ten are stored,
\* and every date it leaves out is older than every date it shows.
C12_NewestTenListed ==
    AskedForList /\ DiaryDates(files) # {}
        => /\ Listed
           /\ Len(trace[2].entries)
                = (IF Cardinality(DiaryDates(files)) <= ListLimit
                   THEN Cardinality(DiaryDates(files)) ELSE ListLimit)
           /\ ListedDates \subseteq DiaryDates(files)
           /\ StrictlyDescending(trace[2].entries)
           /\ IsNewest(trace[2].entries[1].date, DiaryDates(files))
           /\ \A old \in DiaryDates(files) \ ListedDates, shown \in ListedDates :
                 TupleLess(old, shown)

\* Eleven artifacts are stored and the list shows ten.
C12_Witness ==
    /\ AskedForList
    /\ Listed
    /\ Cardinality(DiaryDates(files)) > ListLimit
    /\ Len(trace[2].entries) = ListLimit

\* ------------------------------------------------ properties of the artifact
\* The rating line, the day summary and the gratitude block of a record.
ArtifactBody(secs) ==
    <<"Day Rating: ">> \o RatingDigits(IntOf(secs["day_rating"])) \o <<"/", "1", "0", "\n\n">>
        \o secs["day_summary"]
        \o <<"\n\n", "Gratitude:", "\n">>
        \o secs["gratitude"]

\* The artifact each completed session wrote holds the rating line with the
\* rating of the session's record, then the record's day summary, then the
\* gratitude block, and the file holds what the last session of its date wrote.
ArtifactHoldsRecord ==
    /\ \A i \in SavedRuns :
          /\ IsDigits(completed[i].sections["day_rating"])
          /\ IntOf(completed[i].sections["day_rating"]) \in 1..10
          /\ Contains(ArtifactBody(completed[i].sections), completed[i].content)
    /\ \A p \in ArtifactPaths :
          LastSavedRun(p) # 0 /\ files[p] = completed[LastSavedRun(p)].content

\* The update handled last asked to read the artifact of a stored date.
AskedToRead ==
    /\ trace # << >>
    /\ trace[1].msg.kind = "command"
    /\ trace[1].msg.name = "read_date"
    /\ DiaryFilePath(trace[1].msg.arg) \in DOMAIN files

\* C13: the diary artifact a completed session writes holds the line
\* "Day Rating: N/10" with N the rating of the session's record (1..10),
\* followed by the record's day summary and a "Gratitude:" block with the
\* record's gratitude text, and reading the artifact of that date (read_diary)
\* returns this content.
C13_ArtifactReadBack ==
    /\ ArtifactHoldsRecord
    /\ AskedToRead
          => /\ Len(trace) = 2
             /\ "content" \in DOMAIN trace[2]
             /\ trace[2].content = files[DiaryFilePath(trace[1].msg.arg)]

\* ---------------------------------------------------- properties of cancel
CancelAck == Reply(<<"Diary entry cancelled. You can start a new one anytime!">>)

\* C14: /cancel received in WAITING_FOR_DIARY or WAITING_FOR_AUDIO_CHOICE ends
\* the session: the session becomes idle, the buffered analysis is discarded,
\* the fixed acknowledgement is sent, and the step creates or modifies no file
\* and no folder and writes no diary artifact.
C14_CancelEndsSession ==
    [][\A c \in Chats, u \in Users :
          /\ Handled(c, u, CommandMsg("cancel", << >>))
          /\ conv[<<c, u>>] \in {WAITING_FOR_DIARY, WAITING_FOR_AUDIO_CHOICE}
          => /\ conv'[<<c, u>>] = END
             /\ user_data'[u] = << >>
             /\ EventsOf(trace', "reply") = {CancelAck}
             /\ EventsOf(trace', "write") = {}
             /\ files' = files
             /\ audio_dirs' = audio_dirs
             /\ completed' = completed]_vars

\* A session with a buffered analysis was cancelled.
C14_Witness ==
    /\ Len(trace) = 3
    /\ trace[1].msg = CommandMsg("cancel", << >>)
    /\ trace[2] = CancelAck
    /\ EntryPath(Calendar(today), trace[1].user) \in DOMAIN files
    /\ conv[<<trace[1].chat, trace[1].user>>] = END
    /\ user_data[trace[1].user] = << >>
    /\ ArtifactPaths = {}

\* ------------------------------------- properties of the order of the steps
\* The positions in the trace of the events of one kind.
Positions(tr, kind) == {i \in 1..Len(tr) : tr[i].ev = kind}

\* The handler of the update handled last took the text as the entry.
EntryHandled == trace # << >> /\ Positions(trace, "llm") # {}

\* What the steps of process_diary_entry on a valid entry of that day leave
\* in the trace, by position: the entry is persisted, the model is called, its reply is
\* parsed, the raw analysis is persisted (or the write fails and is logged).
EntryStepsUpToAnalysis(u, day) ==
    /\ Len(trace) = 9
    /\ InRange(trace[1].msg)
    /\ trace[3] = [ev |-> "write", path |-> EntryPath(Calendar(day), u)]
    /\ Positions(trace, "llm") = {5}
    /\ Positions(trace, "parse") = {6}
    /\ trace[7].ev \in {"write", "write_failed"}
    /\ trace[7].path = AnalysisPath(Calendar(day), u)

AudioSent == trace # << >> /\ Positions(trace, "tts") # {}

IsSectionMessage(e) == e.ev = "reply" /\ "title" \in DOMAIN e

IsRatingMessage(e) == e.ev = "reply" /\ "rating" \in DOMAIN e

SectionPositions == {i \in 1..Len(trace) : IsSectionMessage(trace[i])}

RatingPositions == {i \in 1..Len(trace) : IsRatingMessage(trace[i])}

\* C16: on the affirmative audio choice the steps occur in this order: the
\* audio of all sections is rendered, then for each section its text message
\* and directly after it its audio (an audio is sent only directly after the
\* text of its own section, and only if it was rendered), then the rating,
\* then the write of the diary artifact, then the cleanup of the audio, then
\* the clearing of the session state.
C16_AudioOrder ==
    AudioSent
        => /\ Positions(trace, "tts") = {2}
           /\ \E r \in 3..Len(trace) :
                /\ RatingPositions = {r}
                /\ \A i \in SectionPositions \cup Positions(trace, "voice") : 2 < i /\ i < r
                /\ \A i \in 3..(r - 1) : IsSectionMessage(trace[i]) \/ trace[i].ev = "voice"
                /\ Len(trace) = r + 4
                /\ trace[r + 1].ev \in {"write", "write_failed"}
                /\ trace[r + 1].path.dir = "DATA/DiaryEntries"
                /\ trace[r + 2].ev = "reply"
                /\ trace[r + 3].ev = "cleanup"
                /\ trace[r + 4] = [ev |-> "clear"]
           /\ \A i \in Positions(trace, "voice") :
                /\ IsSectionMessage(trace[i - 1])
                /\ trace[i - 1].title = trace[i].section
                /\ trace[i].section \in trace[2].created
           /\ \A i \in SectionPositions, j \in SectionPositions :
                i < j => FieldIndex(trace[i].title) < FieldIndex(trace[j].title)
           /\ user_data[trace[1].user] = << >>
           /\ conv[<<trace[1].chat, trace[1].user>>] = END

\* All seven sections were sent with their audio.
C16_Witness ==
    /\ AudioSent
    /\ Cardinality(SectionPositions) = 7
    /\ Cardinality(Positions(trace, "voice")) = 7
    /\ trace[Len(trace)] = [ev |-> "clear"]

\* ------------------------------------------ properties of concurrent sessions
\* Two completed sessions differ in the user or in the calendar date.
DistinctSessions(i, j) ==
    i # j /\ (completed[i].user # completed[j].user \/ completed[i].day # completed[j].day)

\* C17: two sessions that differ in the user or in the calendar date write to
\* disjoint file paths, so neither overwrites a file the other wrote: the
\* artifacts of two such sessions are different files, and the artifact a
\* session wrote stays as written unless a later session of the same user and
\* date writes it again.
C17_DisjointPaths ==
    /\ \A i \in SavedRuns, j \in SavedRuns :
          DistinctSessions(i, j) => completed[i].path # completed[j].path
    /\ \A i \in SavedRuns :
          \/ files[completed[i].path] = completed[i].content
          \/ \E j \in SavedRuns :
                /\ i < j
                /\ completed[j].user = completed[i].user
                /\ completed[j].day = completed[i].day

\* ------------------------------------------- properties of the failure paths
\* The texts analyze_day_with_openrouter returns when the request fails.
ApologyTexts == {analyze_day_with_openrouter(o) : o \in LlmFailures}

\* The texts the messages of the trace carry, as text or as section content.
SentTexts ==
    {trace[i].text : i \in Positions(trace, "reply")}
        \cup {trace[i].content : i \in SectionPositions}

\* No message the bot sends carries one of the apology texts.
ApologyNeverSent == SentTexts \cap ApologyTexts = {}

\* C18: whenever the request to the language model fails, the fixed apology
\* text of that failure is sent to the user while the entry is handled.
C18_ApologyDelivered ==
    \A e \in EventsOf(trace, "llm") :
        e.outcome \in LlmFailures
            => analyze_day_with_openrouter(e.outcome) \in SentTexts

\* The positions at which the write of a diary artifact failed.
FailedArtifactWrites ==
    {i \in Positions(trace, "write_failed") : trace[i].path.dir = "DATA/DiaryEntries"}

SaveFailedNotice ==
    Reply(<<"There was an issue saving your diary entry. Your analysis is still complete though!">>)

C20_AudioExactlySucceeded ==
    \A i \in Positions(trace, "tts") :
        /\ trace[i].attempted = TextFieldNames
        /\ "day_rating" \notin trace[i].attempted
        /\ Cardinality(trace[i].attempted) = 7
        /\ trace[i].created = trace[i].ok

\* The synthesis failed for a field in the middle and for no other.
C20_Witness ==
    /\ Positions(trace, "tts") = {2}
    /\ trace[2].ok = TextFieldNames \ {"good_use"}
    /\ trace[2].created = TextFieldNames \ {"good_use"}

\* ------------------------------------------- properties of the audio choice
\* The steps of send_analysis that exist only for the audio.
IsAudioStep(e) == e.ev \in {"tts", "voice", "cleanup"}

IsOtherStep(e) == ~IsAudioStep(e)

IsMessage(e) == e.ev = "reply"

\* Two runs of send_analysis that read the same buffered record at the same
\* date, the first answered yes and the second no, with the section messages
\* and the write of the artifact faring alike.
SameRecordYesNo(i, j) ==
    /\ completed[i].want_audio
    /\ ~completed[j].want_audio
    /\ completed[i].buffered /\ completed[j].buffered
    /\ completed[i].sections = completed[j].sections
    /\ completed[i].date_str = completed[j].date_str
    /\ completed[i].day = completed[j].day
    /\ completed[i].delivery = completed[j].delivery
    /\ completed[i].saved = completed[j].saved

FoundFields(s) == {f \in FieldNames : ChosenVariant(s, f) # 0}

\* The header variant the parser stops at for field f.
ChosenHeader(s, f) == sections_to_find[f][ChosenVariant(s, f)]

\* Where the content of field f starts: right after the first occurrence of
\* the chosen header.
SpanStart(s, f) == Find(ChosenHeader(s, f), s) + Len(ChosenHeader(s, f))

\* The offset of the nearest occurrence of a header variant of any field at
\* or after offset b, the length of s when there is none.
NearestHeaderFrom(s, b) ==
    LET hits == {p \in b..Len(s) : \E h \in AllHeaders : OccursAt(h, s, p)}
    IN IF hits = {} THEN Len(s)
       ELSE CHOOSE p \in hits : \A q \in hits : p <= q

\* Two different fields are found, the header of the one declared later comes
\* first in the text.
OutOfDeclaredOrder(s) ==
    \E f \in FoundFields(s), g \in FoundFields(s) :
        /\ FieldIndex(f) < FieldIndex(g)
        /\ SpanStart(s, g) < SpanStart(s, f)

\* C22: in any text, whatever the order of the headers, the content of every
\* field that has a header is the trimmed text from right after the header to
\* the nearest following occurrence of a header variant of any field, or to
\* the end of the text, and the spans of two different fields do not overlap.
C22_SpansDisjoint ==
    Parsed =>
        LET found == FoundFields(text)
            from == [f \in found |-> SpanStart(text, f)]
            to == [f \in found |-> NearestHeaderFrom(text, from[f])]
        IN /\ \A f \in found :
                 /\ from[f] <= to[f]
                 /\ IF f = "day_rating"
                    THEN RatingContent(text) = Strip(Slice(text, from[f], to[f]))
                    ELSE sections[f] = FillDefault(f, Strip(Slice(text, from[f], to[f])))
           /\ \A f \in found, g \in found :
                 f # g => to[f] <= from[g] \/ to[g] <= from[f]

\* A text with the headers of three fields against the declared order, two
\* of them followed by content, was parsed.
C22_Witness ==
    /\ Parsed
    /\ text = <<"DAY", " ", "RATING:", "DAY", " ", "SUMMARY", " ", "a", "\n",
                "GRATITUDE:", " ", "a", "\n">>
    /\ OutOfDeclaredOrder(text)
    /\ sections["day_summary"] = <<"a">>
    /\ sections["gratitude"] = <<"a">>
    /\ sections["day_rating"] = DefaultRating

\* --------------------------------------- properties of the choice of variant
\* The variants of field f, by their place in the list, that occur in s.
VariantsPresent(s, f) ==
    {i \in 1..Len(sections_to_find[f]) : Contains(sections_to_find[f][i], s)}

\* The content of field f in s when the parser starts right after the first
\* occurrence of the i-th variant.
ContentAfter(s, f, i) ==
    LET h == sections_to_find[f][i]
        b == Find(h, s) + Len(h)
    IN Strip(Slice(s, b, NearestHeaderFrom(s, b)))

\* What the parser extracted for field f, before the defaults and the
\* normalisation of the rating.
Extracted(f) == IF f = "day_rating" THEN RatingContent(text) ELSE sections[f]

\* The variants of f in s none of which occurs earlier in s.
EarliestInText(s, f) ==
    {i \in VariantsPresent(s, f) :
        \A j \in VariantsPresent(s, f) :
            Find(sections_to_find[f][i], s) <= Find(sections_to_find[f][j], s)}

\* C23 as stated: when more than one variant of a field occurs in the text,
\* the content of the field is what follows the variant that occurs first in
\* the text (either of them when two start at the same place).
C23_FirstInTextVariant ==
    Parsed =>
        \A f \in FieldNames :
            Cardinality(VariantsPresent(text, f)) > 1
                => \E i \in EarliestInText(text, f) :
                      Extracted(f) = FillDefault(f, ContentAfter(text, f, i))
                        \/ Extracted(f) = ContentAfter(text, f, i)

\* C23, amended: when more than one variant of a field occurs in the text, the
\* content of the field is what follows the first occurrence of the variant
\* that comes first in the field's list of variants, wherever the other
\* variants occur.
C23_FirstListedVariant ==
    Parsed =>
        \A f \in FieldNames :
            Cardinality(VariantsPresent(text, f)) > 1
                => LET i == CHOOSE k \in VariantsPresent(text, f) :
                                \A j \in VariantsPresent(text, f) : k <= j
                   IN IF f = "day_rating"
                      THEN Extracted(f) = ContentAfter(text, f, i)
                      ELSE Extracted(f) = FillDefault(f, ContentAfter(text, f, i))

\* The second variant of gratitude comes first in the text, with content, and
\* the field holds what follows the first variant, which is nothing.
C23_Witness ==
    /\ Parsed
    /\ text = <<"THINGS TO BE GRATEFUL FOR:", " ", "a", "\n", "GRATITUDE:">>
    /\ VariantsPresent(text, "gratitude") = {1, 2}
    /\ EarliestInText(text, "gratitude") = {2}
    /\ sections["gratitude"] = Placeholder

\* --------------------------------------- properties of the raw entry's write
\* The positions at which the write of a raw entry failed.
FailedEntryWrites ==
    {i \in Positions(trace, "write_failed") :
        trace[i].path.dir = "DATA/Diary" /\ trace[i].path.leaf = ".txt"}

\* After the failed write of the raw entry nothing of the pipeline ran: the
\* model was not called, nothing was parsed or buffered, the audio prompt was
\* not sent, the answer is the one of the error handler and the session still
\* waits for the entry.
EntryWriteFailureUnwinds ==
    \A w \in FailedEntryWrites :
        /\ Positions(trace, "llm") = {}
        /\ Positions(trace, "parse") = {}
        /\ Positions(trace, "buffer") = {}
        /\ AudioPrompt \notin EventsOf(trace, "reply")
        /\ trace[Len(trace)] = Reply(<<"Sorry, something went wrong. Please try again later.">>)
        /\ user_data[trace[1].user] = << >>
        /\ conv[<<trace[1].chat, trace[1].user>>] = WAITING_FOR_DIARY

\* C24: if the write of the raw entry fails while a valid entry is handled, the
\* user gets a warning and the handling goes on: the model is called, its
\* reply is parsed and buffered, the audio prompt is sent and the session
\* waits for the audio choice.
C24_EntryWriteFailureContinues ==
    \A w \in FailedEntryWrites :
        /\ \E i \in Positions(trace, "reply") : w < i
        /\ \E i \in Positions(trace, "llm") : w < i
        /\ \E i \in Positions(trace, "parse") : w < i
        /\ \E i \in Positions(trace, "buffer") : w < i
        /\ AudioPrompt \in EventsOf(trace, "reply")
        /\ "analysis" \in DOMAIN user_data[trace[1].user]
        /\ conv[<<trace[1].chat, trace[1].user>>] = WAITING_FOR_AUDIO_CHOICE

\* ------------------------------------------- properties of the shared artifact
\* Two different users completed a session whose artifact is the file p.
WrittenByTwoUsers(p) ==
    \E i \in SavedRuns, j \in SavedRuns :
        /\ completed[i].user # completed[j].user
        /\ completed[i].path = p
        /\ completed[j].path = p

\* The artifact is keyed by the calendar date of the completion alone, and the
\* file holds what the session that completed last on that date wrote.
LastWriterWins ==
    /\ \A i \in SavedRuns : completed[i].path = DiaryFilePath(IsoDate(Calendar(completed[i].day)))
    /\ \A i \in SavedRuns, j \in SavedRuns :
          completed[i].day = completed[j].day => completed[i].path = completed[j].path
    /\ \A p \in ArtifactPaths :
          LastSavedRun(p) # 0 /\ files[p] = completed[LastSavedRun(p)].content

\* C25: the diary artifact is keyed by the calendar date only: two users who
\* complete sessions on the same date write the same file, the file holds the
\* content of the session that completed last, and an authorized user who
\* then reads the entry of that date gets this content.
C25_LastWriterReadBack ==
    /\ LastWriterWins
    /\ \A p \in ArtifactPaths :
          (AskedToRead /\ DiaryFilePath(trace[1].msg.arg) = p /\ WrittenByTwoUsers(p))
              => /\ Len(trace) = 2
                 /\ "content" \in DOMAIN trace[2]
                 /\ trace[2].content = completed[LastSavedRun(p)].content

\* ------------------------------------------------ properties of the buffer
Buffered(u) == "analysis" \in DOMAIN user_data[u]

\* A conversation of the user waits for the audio choice.
AwaitsChoice(u) == \E c \in Chats : conv[<<c, u>>] = WAITING_FOR_AUDIO_CHOICE

\* The runs of send_analysis that found no buffered record and fell back to
\* the defaults.
FallbackRuns == {i \in 1..Len(completed) : ~completed[i].buffered}

\* C26: for every user, in every reachable state, a record is buffered exactly
\* when a conversation of the user waits for the audio choice, and every run
\* of send_analysis found a buffered record.
C26_BufferedIffAwaitingChoice ==
    /\ \A u \in Users : Buffered(u) <=> AwaitsChoice(u)
    /\ \A c \in Chats, u \in Users :
          conv[<<c, u>>] = WAITING_FOR_AUDIO_CHOICE => Buffered(u)
    /\ FallbackRuns = {}

\* With one chat per user the statement of C26 holds: a record is buffered
\* exactly when the private conversation of the user waits for the audio
\* choice, and send_analysis finds it.
BufferedIffAwaitingChoice_OneChat ==
    /\ \A u \in Users : Buffered(u) <=> conv[<<"private", u>>] = WAITING_FOR_AUDIO_CHOICE
    /\ FallbackRuns = {}

\* A run of send_analysis fell back to the defaults: every section message
\* says "No analysis available.", and the artifact was written from them.
FallbackHappened ==
    \E i \in FallbackRuns :
        /\ completed[i].saved
        /\ completed[i].sections = << >>
        /\ \A k \in 1..Len(completed[i].events) :
              IsSectionMessage(completed[i].events[k])
                  => completed[i].events[k].content = <<"No analysis available.">>
        /\ Contains(<<"No day summary available.">>, files[completed[i].path])

\* ------------------------------------------ properties of the artifact's date
\* The runs of send_analysis that read a buffered record and wrote the artifact.
BufferedSavedRuns == {i \in SavedRuns : completed[i].buffered}

\* The first lines of the artifact of a session of that date.
ArtifactHeader(date) ==
    <<"Diary Entry: ", ToString(date.y), ToString(date.m), ToString(date.d), "\n\n">>

\* The artifact of run i is keyed by and headed with the date of day d.
ArtifactDatedAs(i, d) ==
    /\ completed[i].path = DiaryFilePath(IsoDate(Calendar(d)))
    /\ SubSeq(completed[i].content, 1, 5) = ArtifactHeader(Calendar(d))

\* The artifact carries the date of the moment send_analysis runs, whatever
\* date was buffered with the record.
ArtifactDatedAtCompletion ==
    \A i \in BufferedSavedRuns : ArtifactDatedAs(i, completed[i].day)

\* C27: the artifact a session writes is keyed by and headed with the date
\* buffered when the entry was submitted, the date of the raw entry and of
\* the section messages, also when the audio choice arrives on a later day.
C27_ArtifactDatedAsEntry ==
    \A i \in BufferedSavedRuns :
        \E d \in 1..MaxDay :
            /\ completed[i].date_str = DateStr(Calendar(d))
            /\ EntryPath(Calendar(d), completed[i].user) \in DOMAIN files
            /\ \A k \in 1..Len(completed[i].events) :
                  IsSectionMessage(completed[i].events[k])
                      => completed[i].events[k].date_str = DateStr(Calendar(d))
            /\ ArtifactDatedAs(i, d)

\* The audio choice arrived a day after the entry.
ChoiceOnLaterDay ==
    \E i \in BufferedSavedRuns :
        completed[i].date_str # DateStr(Calendar(completed[i].day))

\* ------------------------------------------- properties of the audio folder
\* The sections whose audio was sent by the handler of the last update.
VoicedSections == {trace[i].section : i \in Positions(trace, "voice")}

\* C28: the cleanup of the audio of one session does not affect another
\* session: whenever a session is answered with yes, also after another
\* session of the same date completed with audio in between, the audio of
\* every section whose synthesis succeeds is rendered and sent.
C28_CleanupIsolated ==
    AudioSent
        => /\ trace[2].created = trace[2].ok
           /\ VoicedSections = trace[2].ok

\* The audio folder of the buffered record is gone when send_analysis runs:
\* the syntheses succeed and no audio is rendered or sent.
AudioLostToCleanup ==
    /\ AudioSent
    /\ trace[2].ok = TextFieldNames
    /\ trace[2].created = {}
    /\ VoicedSections = {}
    /\ \E i \in 1..Len(completed) - 1 :
          /\ completed[i].want_audio
          /\ completed[i].user # trace[1].user
          /\ completed[i].date_str = completed[Len(completed)].date_str

\* A session answered with yes loses its audio only if another session
\* with the same audio folder completed with audio before: with one session
\* at a time the audio of every successful synthesis is sent.
AudioLostOnlyToCleanup ==
    (AudioSent /\ trace[2].created # trace[2].ok)
        => \E i \in 1..Len(completed) - 1 :
              /\ completed[i].want_audio
              /\ completed[i].date_str = completed[Len(completed)].date_str

====
